---- MODULE Spec2Model ----
(***************************************************************************)
(* AStorage-py client layer: BatchManual / PartitionBatch request          *)
(* coalescing, the Entry handles that register into it, and the key-value  *)
(* server the transport talks to.                                          *)
(*                                                                         *)
(* Scheduling is asyncio's: one coroutine runs at a time and control       *)
(* changes hands only at an await.  Every action below is the code that    *)
(* runs between two awaits of one coroutine.                               *)
(***************************************************************************)
EXTENDS Integers, Sequences, FiniteSets, TLC

(* ---------------------------------------------------------------- bounds *)
NumCallers == 2      \* tasks running Entry.set / Entry.cas with the batch
NumSenders == 2      \* calls of BatchManual.send on the batch, one after another

Callers == 1..NumCallers
Senders == 1..NumSenders
Partitions == {"p1", "p2"}
Clusterings == {"a", "b"}
Keys == Partitions \X Clusterings
PreparedKey == <<"p1", "a">>

None == 0            \* Python None as a value; real values are 1, 2, ...
NoVersion == -1      \* Python None as an old_version
NoCode == 0          \* no response / no exception

VARIABLES
    store,        \* server: key -> [value, version]
    in_process,   \* BatchManual._in_process
    future,       \* BatchManual._future: "pending" | "done"
    batch,        \* BatchManual._batch, in insertion order
    call,         \* the registering coroutines and their Entry objects
    sender,       \* the send() coroutines
    puts          \* transport: partition -> number of PUTs issued for it

\* the state of the direct Entry operations, the transactions and the
\* argument checks; the batch actions leave it alone
VARIABLES
    ent,          \* the coroutines calling Entry.get/listen/set/cas directly
    txn,          \* server: transaction index -> its state and buffered writes
    scope,        \* the `async with session.transaction()` blocks
    probe         \* one call whose arguments or status code are examined

\* the event loop, where the order in which it runs the tasks is looked at
VARIABLES
    loop          \* asyncio: the tasks that are ready, in the order they run

bvars == <<in_process, future, batch, call, sender, puts, loop>>
xvars == <<ent, txn, scope, probe, loop>>
vars == <<store, in_process, future, batch, call, sender, puts, ent, txn, scope, probe, loop>>

(* ------------------------------------------------------------ http.py *)
\* mutant: 410 and 412 exchanged
raise_if_error_swapped(code) ==
    IF code = 200 THEN ""
    ELSE IF code = 401 THEN "AuthenticationFailedError"
    ELSE IF code = 408 THEN "TimeoutError"
    ELSE IF code = 409 THEN "CasError"
    ELSE IF code = 412 THEN "TransactionNotFoundError"
    ELSE IF code = 410 THEN "TransactionCompletedError"
    ELSE "KvError"

\* raise_if_error: the exception a status code raises, "" for none.
raise_if_error(code) ==
    IF code = 200 THEN ""
    ELSE IF code = 401 THEN "AuthenticationFailedError"
    ELSE IF code = 408 THEN "TimeoutError"
    ELSE IF code = 409 THEN "CasError"
    ELSE IF code = 410 THEN "TransactionNotFoundError"
    ELSE IF code = 412 THEN "TransactionCompletedError"
    ELSE "KvError"

\* the argument of the exception: only KvError is built with one, the message
\* that ends with the code
raise_if_error_args(code) ==
    IF raise_if_error(code) = "KvError"
    THEN <<"Unexpected server error with code", code>>
    ELSE <<>>

(* ------------------------------------------------------ sequence helpers *)
RECURSIVE IndexOf(_, _, _)
\* position of the first element of seq stored under key k, from i on; 0 if none
IndexOf(seq, k, i) ==
    IF i > Len(seq) THEN 0
    ELSE IF seq[i].key = k THEN i
    ELSE IndexOf(seq, k, i + 1)

\* dict lookup: the position of key k in an insertion-ordered dict, 0 if absent
Lookup(dict, k) == IndexOf(dict, k, 1)

(* --------------------------------------------------------- BatchManual.py *)
\* BatchEntry.__init__
BatchEntry(k, new_value, old_version) ==
    [key |-> k, new_value |-> new_value, old_version |-> old_version,
     new_version |-> 0]

\* PartitionBatch.__init__ (key: the partition it is stored under)
PartitionBatch(p, n, r, w) ==
    [key |-> p, n |-> n, r |-> r, w |-> w, batch |-> <<>>]

\* mutant: the duplicate check is missing
assert_not_set_missing(pb, clustering) == TRUE

\* PartitionBatch.__assert_not_set: TRUE when the assertion passes
assert_not_set(pb, clustering) == Lookup(pb.batch, clustering) = 0

\* mutant: the single-use check is missing
assert_in_process_missing == TRUE

\* BatchManual._assert_in_process: TRUE when the assertion passes
assert_in_process == in_process

\* mutant: a registration overwrites the n, r, w of its partition
setdefault_update(b, p, n, r, w) ==
    IF Lookup(b, p) = 0 THEN Append(b, PartitionBatch(p, n, r, w))
    ELSE [b EXCEPT ![Lookup(b, p)].n = n, ![Lookup(b, p)].r = r,
                   ![Lookup(b, p)].w = w]

\* dict.setdefault(partition, PartitionBatch(n, r, w)) on BatchManual._batch
setdefault(b, p, n, r, w) ==
    IF Lookup(b, p) = 0 THEN Append(b, PartitionBatch(p, n, r, w)) ELSE b

\* PartitionBatch.set / PartitionBatch.cas once the assertion has passed:
\* self.batch[key] = entry
PartitionBatchPut(pb, clustering, new_value, old_version) ==
    [pb EXCEPT !.batch = Append(@, BatchEntry(clustering, new_value, old_version))]

\* mutant: the items carry the old version where the new value belongs
build_request_body_swapped(pb) ==
    [i \in 1..Len(pb.batch) |->
        [key |-> pb.batch[i].key,
         value |-> pb.batch[i].old_version,
         version |-> pb.batch[i].old_version]]

\* mutant: a set is sent with version 0, as a cas of a key never written
build_request_body_versioned(pb) ==
    [i \in 1..Len(pb.batch) |->
        [key |-> pb.batch[i].key,
         value |-> pb.batch[i].new_value,
         version |-> IF pb.batch[i].old_version = NoVersion THEN 0
                     ELSE pb.batch[i].old_version]]

\* PartitionBatch.build_request_body
build_request_body(pb) ==
    [i \in 1..Len(pb.batch) |->
        [key |-> pb.batch[i].key,
         value |-> pb.batch[i].new_value,
         version |-> pb.batch[i].old_version]]

\* mutant: every entry receives the version of the first item of the response
apply_response_first(pb, body) ==
    [pb EXCEPT !.batch = [i \in 1..Len(pb.batch) |->
                             [pb.batch[i] EXCEPT !.new_version = body[1].version]]]

\* PartitionBatch.apply_response: self.batch[key].new_version = version
RECURSIVE apply_response(_, _)
apply_response(pb, body) ==
    IF body = <<>> THEN pb
    ELSE LET item == Head(body)
             i == Lookup(pb.batch, item.key)
         IN apply_response([pb EXCEPT !.batch[i].new_version = item.version],
                           Tail(body))

(* ------------------------------------------------------------- the server *)
\* The key-value server behind the transport: a versioned store.
\* A never-written key has version 0 and no value.
Fresh == [value |-> None, version |-> 0]

\* PUT /v2/kv/partition/<p>: the items whose version is given are compare-and-
\* set, the others plain sets; the call is applied as a whole or not at all.
ServerBatchOk(st, p, body) ==
    \A i \in 1..Len(body) :
        \/ body[i].version = NoVersion
        \/ body[i].version = st[<<p, body[i].key>>].version

ServerBatchWritten(p, body) == {<<p, body[i].key>> : i \in 1..Len(body)}

ServerBatchValue(body, c) ==
    LET i == CHOOSE j \in 1..Len(body) : body[j].key = c IN body[i].value

ServerBatchStore(st, p, body) ==
    [k \in Keys |->
        IF k \in ServerBatchWritten(p, body)
        THEN [value |-> ServerBatchValue(body, k[2]), version |-> st[k].version + 1]
        ELSE st[k]]

\* the response body: one {key, version} per item, in the order received
ServerBatchResponse(st, p, body) ==
    [i \in 1..Len(body) |->
        [key |-> body[i].key, version |-> st[<<p, body[i].key>>].version + 1]]

\* the statuses the server may answer a partition PUT with
ServerBatchStatuses(st, p, body) ==
    IF ServerBatchOk(st, p, body) THEN {200, 408} ELSE {409, 408}

\* GET of one key: the stored version and value
ServerGet(st, key) ==
    [status |-> 200, version |-> st[key].version, value |-> st[key].value]

(* --------------------------------------------------- Entry.py, Session.py *)
\* Entry.__init__
Entry(partition, clustering, version, value) ==
    [partition |-> partition, clustering |-> clustering,
     version |-> version, value |-> value]

\* Entry.get on a 200 response: the cached version and value are overwritten
Entry_get(entry, response) ==
    [entry EXCEPT !.version = response.version, !.value = response.value]

\* Session.get_entry against the store st
get_entry(st, partition, clustering) ==
    Entry_get(Entry(partition, clustering, 0, None),
              ServerGet(st, <<partition, clustering>>))

(* ------------------------------------------------------------------ Init *)
IdleCall ==
    [pc |-> "idle", partition |-> "", clustering |-> "", new_value |-> None,
     old_version |-> NoVersion, result |-> 0, error |-> "",
     version |-> 0, value |-> None]

NoRequest == [partition |-> "", n |-> 0, r |-> 0, w |-> 0, body |-> <<>>]

IdleSender ==
    [pc |-> "idle", requests |-> <<>>, idx |-> 0, req |-> NoRequest,
     status |-> NoCode, body |-> <<>>, error |-> ""]

\* no task is ready, and send() has not been called on an empty batch
NoLoop == [ready |-> <<>>, by |-> 0, open |-> FALSE, scheduled |-> {}]

\* the prepared key once it has been written: one write, of a value no caller uses
Prepared == [value |-> NumCallers + 1, version |-> 1]

\* the old_version arguments a cas is called with
OldVersions == {NoVersion, 0, 1}

\* BatchManual.__init__, the entries of Session.entry, and a store in which
\* the prepared key may have been written before
Init ==
    /\ \E written \in BOOLEAN :
          store = [k \in Keys |->
                      IF k = PreparedKey /\ written THEN Prepared ELSE Fresh]
    /\ in_process = TRUE
    /\ future = "pending"
    /\ batch = <<>>
    /\ call = [c \in Callers |-> IdleCall]
    /\ sender = [s \in Senders |-> IdleSender]
    /\ puts = [p \in Partitions |-> 0]
    /\ ent = <<>>
    /\ txn = <<>>
    /\ scope = <<>>
    /\ probe = <<>>
    /\ loop = NoLoop

(* ------------------------------------------- Entry.set / Entry.cas (batch) *)
\* mutant: an omitted old_version is taken as 0
CasOldVersionZero(entry, old_version) ==
    IF old_version = NoVersion THEN 0 ELSE old_version

\* Entry.cas lines 131-132: old_version defaults to the cached version
CasOldVersion(entry, old_version) ==
    IF old_version = NoVersion THEN entry.version ELSE old_version

\* mutant: a duplicate registration replaces the pending entry before it raises
Register_replace(c, p, k, op, old, n, r, w) ==
    /\ call[c].pc = "idle"
    /\ \A d \in Callers : d < c => call[d].pc # "idle"
    /\ LET old_version == IF op = "set" THEN NoVersion
                          ELSE CasOldVersion(call[c], old)
           me == [call[c] EXCEPT !.partition = p, !.clustering = k,
                                 !.new_value = c, !.old_version = old_version]
           b1 == setdefault(batch, p, n, r, w)
           i == Lookup(b1, p)
       IN IF ~assert_in_process
          THEN /\ call' = [call EXCEPT ![c] = [me EXCEPT !.pc = "raised",
                                                       !.error = "AssertionError"]]
               /\ UNCHANGED batch
          ELSE IF ~assert_not_set(b1[i], k)
          THEN /\ call' = [call EXCEPT ![c] = [me EXCEPT !.pc = "raised",
                                                       !.error = "AssertionError"]]
               /\ batch' = [b1 EXCEPT ![i].batch[Lookup(b1[i].batch, k)] =
                                BatchEntry(k, c, old_version)]
          ELSE /\ call' = [call EXCEPT ![c] = [me EXCEPT !.pc = "waiting"]]
               /\ batch' = [b1 EXCEPT ![i] = PartitionBatchPut(@, k, c, old_version)]
    /\ UNCHANGED <<store, in_process, future, sender, puts>>

\* BatchManual.set / BatchManual.cas up to `await self._future`, reached from
\* Entry.set / Entry.cas with a batch argument.  op = "set" registers without
\* an old version.  The new value is the caller's own number, and the callers
\* are numbered in the order in which the event loop first runs them.
Register(c, p, k, op, old, n, r, w) ==
    /\ call[c].pc = "idle"
    /\ \A d \in Callers : d < c => call[d].pc # "idle"
    /\ LET old_version == IF op = "set" THEN NoVersion
                          ELSE CasOldVersion(call[c], old)
           me == [call[c] EXCEPT !.partition = p, !.clustering = k,
                                 !.new_value = c, !.old_version = old_version]
           b1 == setdefault(batch, p, n, r, w)
           i == Lookup(b1, p)
       IN IF ~assert_in_process
          THEN /\ call' = [call EXCEPT ![c] = [me EXCEPT !.pc = "raised",
                                                       !.error = "AssertionError"]]
               /\ UNCHANGED batch
          ELSE IF ~assert_not_set(b1[i], k)
          THEN /\ call' = [call EXCEPT ![c] = [me EXCEPT !.pc = "raised",
                                                       !.error = "AssertionError"]]
               /\ batch' = b1
          ELSE /\ call' = [call EXCEPT ![c] = [me EXCEPT !.pc = "waiting"]]
               /\ batch' = [b1 EXCEPT ![i] = PartitionBatchPut(@, k, c, old_version)]
    /\ UNCHANGED <<store, in_process, future, sender, puts>>

\* the version a resumed caller returns: its BatchEntry's new_version
OwnNewVersion(b, p, k) ==
    LET pb == b[Lookup(b, p)] IN pb.batch[Lookup(pb.batch, k)].new_version

\* BatchManual.set / cas after `await self._future`, and the assignments of
\* Entry.set / Entry.cas that follow it
Resume(c) ==
    /\ call[c].pc = "waiting"
    /\ future = "done"
    /\ LET v == OwnNewVersion(batch, call[c].partition, call[c].clustering)
       IN call' = [call EXCEPT ![c].pc = "returned", ![c].result = v,
                               ![c].version = v, ![c].value = call[c].new_value]
    /\ UNCHANGED <<store, in_process, future, batch, sender, puts>>

(* ------------------------------------------------------ BatchManual.send *)
\* mutant: the url is built from the first registered partition
PartitionRequestFirstUrl(pb) ==
    [partition |-> batch[1].key, n |-> pb.n, r |-> pb.r, w |-> pb.w,
     body |-> build_request_body(pb)]

\* mutant: the request names the transaction that was begun last
PartitionRequestTx(pb) ==
    [partition |-> pb.key, n |-> pb.n, r |-> pb.r, w |-> pb.w,
     body |-> build_request_body(pb), transaction |-> Len(txn)]

\* _send_partition up to `await self._session.put`: the request it issues
PartitionRequest(pb) ==
    [partition |-> pb.key, n |-> pb.n, r |-> pb.r, w |-> pb.w,
     body |-> build_request_body(pb)]

\* mutant: the completion signal is resolved when the first request starts
SendFromEarly(s, reqs, i, b) ==
    IF i <= Len(reqs)
    THEN /\ sender' = [sender EXCEPT ![s] = [IdleSender EXCEPT !.pc = "await",
                           !.requests = reqs, !.idx = i,
                           !.req = PartitionRequest(b[Lookup(b, reqs[i])])]]
         /\ puts' = [puts EXCEPT ![reqs[i]] = @ + 1]
         /\ future' = "done"
    ELSE /\ puts' = puts
         /\ future' = "done"
         /\ sender' = [sender EXCEPT ![s] = [IdleSender EXCEPT !.pc = "done",
                           !.requests = reqs, !.idx = i]]

\* mutant: send() returns without resolving the completion signal
SendFromForget(s, reqs, i, b) ==
    IF i <= Len(reqs)
    THEN /\ sender' = [sender EXCEPT ![s] = [IdleSender EXCEPT !.pc = "await",
                           !.requests = reqs, !.idx = i,
                           !.req = PartitionRequest(b[Lookup(b, reqs[i])])]]
         /\ puts' = [puts EXCEPT ![reqs[i]] = @ + 1]
         /\ UNCHANGED future
    ELSE /\ puts' = puts
         /\ UNCHANGED future
         /\ sender' = [sender EXCEPT ![s] = [IdleSender EXCEPT !.pc = "done",
                           !.requests = reqs, !.idx = i]]

\* send() from `await request` number i on: start that request, or, past the
\* last one, self._future.set_result(None)
SendFrom(s, reqs, i, b) ==
    IF i <= Len(reqs)
    THEN /\ sender' = [sender EXCEPT ![s] = [IdleSender EXCEPT !.pc = "await",
                           !.requests = reqs, !.idx = i,
                           !.req = PartitionRequest(b[Lookup(b, reqs[i])])]]
         /\ puts' = [puts EXCEPT ![reqs[i]] = @ + 1]
         /\ UNCHANGED future
    ELSE /\ puts' = puts
         /\ IF future = "pending"
            THEN /\ future' = "done"
                 /\ sender' = [sender EXCEPT ![s] = [IdleSender EXCEPT !.pc = "done",
                           !.requests = reqs, !.idx = i]]
            ELSE /\ UNCHANGED future
                 /\ sender' = [sender EXCEPT ![s] = [IdleSender EXCEPT !.pc = "raised",
                           !.requests = reqs, !.idx = i,
                           !.error = "InvalidStateError"]]

\* the coroutines send() creates: one per partition, in dict order
SendRequests(b) == [i \in 1..Len(b) |-> b[i].key]

\* mutant: send() builds its requests and leaves the batch open
SendCloseOpen(s) ==
    /\ in_process' = in_process
    /\ SendFrom(s, SendRequests(batch), 1, batch)
    /\ UNCHANGED <<store, batch, call>>

\* send() from `self._in_process = False` to its next await
SendClose(s) ==
    /\ in_process' = FALSE
    /\ SendFrom(s, SendRequests(batch), 1, batch)
    /\ UNCHANGED <<store, batch, call>>

\* mutant: send() closes the batch at once, also when it is empty
SendInvokeNoYield(s) ==
    /\ sender[s].pc = "idle"
    /\ \A q \in Senders : q < s => sender[q].pc \in {"done", "raised"}
    /\ SendClose(s)

\* send() is called: with an empty batch it yields once (asyncio.sleep(0)).
\* The calls of send() are numbered in call order, and the batch's owner calls
\* send() again only after the previous call has returned or raised.
SendInvoke(s) ==
    /\ sender[s].pc = "idle"
    /\ \A q \in Senders : q < s => sender[q].pc \in {"done", "raised"}
    /\ IF Len(batch) = 0
       THEN /\ sender' = [sender EXCEPT ![s].pc = "yield"]
            /\ UNCHANGED <<store, in_process, future, batch, call, puts>>
       ELSE SendClose(s)

\* send() resumes from asyncio.sleep(0)
SendAfterYield(s) ==
    /\ sender[s].pc = "yield"
    /\ SendClose(s)

\* the request of sender s that is on the wire
InFlight(s) == sender[s].req

\* the transport performs the PUT of sender s: the server answers it
ServerPut(s) ==
    /\ sender[s].pc = "await"
    /\ LET req == InFlight(s) IN
       \E status \in ServerBatchStatuses(store, req.partition, req.body) :
          IF status = 200
          THEN /\ store' = ServerBatchStore(store, req.partition, req.body)
               /\ sender' = [sender EXCEPT ![s].pc = "resp", ![s].status = 200,
                     ![s].body = ServerBatchResponse(store, req.partition, req.body)]
          ELSE /\ UNCHANGED store
               /\ sender' = [sender EXCEPT ![s].pc = "resp", ![s].status = status]
    /\ UNCHANGED <<in_process, future, batch, call, puts>>

\* mutant: a failed transport call resolves the completion signal
SendResume_resolve(s) ==
    /\ sender[s].pc = "resp"
    /\ IF raise_if_error(sender[s].status) # ""
       THEN /\ sender' = [sender EXCEPT ![s].pc = "raised",
                              ![s].error = raise_if_error(sender[s].status)]
            /\ future' = "done"
            /\ UNCHANGED <<batch, puts>>
       ELSE LET i == Lookup(batch, sender[s].requests[sender[s].idx])
                b1 == [batch EXCEPT ![i] = apply_response(@, sender[s].body)]
            IN /\ batch' = b1
               /\ SendFrom(s, sender[s].requests, sender[s].idx + 1, b1)
    /\ UNCHANGED <<store, in_process, call>>

\* _send_partition after `await self._session.put`, then send() up to its
\* next await: an error status raises out of send(); otherwise the response is
\* applied and the next request starts
SendResume(s) ==
    /\ sender[s].pc = "resp"
    /\ IF raise_if_error(sender[s].status) # ""
       THEN /\ sender' = [sender EXCEPT ![s].pc = "raised",
                              ![s].error = raise_if_error(sender[s].status)]
            /\ UNCHANGED <<future, batch, puts>>
       ELSE LET i == Lookup(batch, sender[s].requests[sender[s].idx])
                b1 == [batch EXCEPT ![i] = apply_response(@, sender[s].body)]
            IN /\ batch' = b1
               /\ SendFrom(s, sender[s].requests, sender[s].idx + 1, b1)
    /\ UNCHANGED <<store, in_process, call>>

(* ------------------------------------------------------------------ Next *)
NRW == {<<3, 2, 2>>}

DoRegister ==
    \E c \in Callers, p \in Partitions, k \in Clusterings,
       op \in {"set", "cas"}, old \in OldVersions, nrw \in NRW :
        /\ (op = "set" => old = NoVersion)
        /\ Register(c, p, k, op, old, nrw[1], nrw[2], nrw[3])
        /\ UNCHANGED xvars
DoResume == \E c \in Callers : Resume(c) /\ UNCHANGED xvars
DoSendInvoke == \E s \in Senders : SendInvoke(s) /\ UNCHANGED xvars
DoSendAfterYield == \E s \in Senders : SendAfterYield(s) /\ UNCHANGED xvars
DoServerPut == \E s \in Senders : ServerPut(s) /\ UNCHANGED xvars
DoSendResume == \E s \in Senders : SendResume(s) /\ UNCHANGED xvars

Next ==
    \/ DoRegister
    \/ DoResume
    \/ DoSendInvoke
    \/ DoSendAfterYield
    \/ DoServerPut
    \/ DoSendResume

Spec == Init /\ [][Next]_vars

\* The event loop runs every coroutine that is ready, and the transport answers
\* every request; nothing obliges a program to register or to call send().
FairSpec ==
    /\ Spec
    /\ \A c \in Callers : WF_vars(Resume(c) /\ UNCHANGED xvars)
    /\ \A s \in Senders : WF_vars(SendAfterYield(s) /\ UNCHANGED xvars)
    /\ \A s \in Senders : WF_vars(ServerPut(s) /\ UNCHANGED xvars)
    /\ \A s \in Senders : WF_vars(SendResume(s) /\ UNCHANGED xvars)

(* ---------------------------------------------------------------- claims *)
Key(c) == <<call[c].partition, call[c].clustering>>
Registered(c) == call[c].pc \in {"waiting", "returned"}
Finished(c) == call[c].pc \in {"returned", "raised"}
Invoked(s) == sender[s].pc # "idle"
TransportError(s) == sender[s].pc = "raised" /\ sender[s].error # "InvalidStateError"
OnlyFirstSend == \A s \in Senders : s > 1 => sender[s].pc = "idle"
InBatch(b, p, k) == Lookup(b, p) # 0 /\ Lookup(b[Lookup(b, p)].batch, k) # 0
\* the pending entries of a batch, without the versions responses fill in
Pending(b) ==
    UNION {{<<b[i].key, b[i].batch[j].key, b[i].batch[j].new_value,
              b[i].batch[j].old_version>> : j \in 1..Len(b[i].batch)} :
           i \in 1..Len(b)}

\* C1: while send() has been called once only, no partition has been PUT more
\* than once; when that send() has returned, every registered partition has
\* been PUT exactly once, whatever the number of its keys; and a caller that
\* has returned holds the version the server gave its own key in that PUT.
C1_OnePutOwnVersion ==
    OnlyFirstSend =>
        /\ \A p \in Partitions : puts[p] <= 1
        /\ sender[1].pc = "done" =>
              \A p \in Partitions :
                 puts[p] = IF \E c \in Callers : Registered(c) /\ call[c].partition = p
                           THEN 1 ELSE 0
        /\ \A c \in Callers :
              call[c].pc = "returned" => call[c].result = store[Key(c)].version

C1_Witness ==
    /\ OnlyFirstSend
    /\ sender[1].pc = "done"
    /\ \E c, d \in Callers :
          /\ call[c].pc = "returned" /\ call[d].pc = "returned"
          /\ call[c].partition = call[d].partition
          /\ call[c].clustering # call[d].clustering
          /\ puts[call[c].partition] = 1
          /\ call[c].result = 2 /\ call[d].result = 1

\* C2: a batched set/cas has returned only if the completion signal is
\* resolved, by a send() that was invoked and has no request left to issue
\* or outstanding.
C2_ReturnOnlyAfterSend ==
    \A c \in Callers :
        call[c].pc = "returned" =>
            /\ future = "done"
            /\ \E s \in Senders :
                  /\ sender[s].pc = "done"
                  /\ sender[s].idx = Len(sender[s].requests) + 1
                  /\ sender[s].req = NoRequest
                  /\ \A i \in 1..Len(sender[s].requests) : puts[sender[s].requests[i]] >= 1

C2_Witness ==
    \E c \in Callers, s \in Senders :
        /\ call[c].pc = "returned"
        /\ sender[s].pc = "done"
        /\ Len(sender[s].requests) = 2

\* C3: a caller suspended in a batch on which send() has been invoked is
\* eventually resumed with a version the server assigned to its key, unless a
\* transport call of a send() has failed.
C3_UnblockedOnSuccess ==
    \A c \in Callers :
        (call[c].pc = "waiting" /\ \E s \in Senders : Invoked(s))
            ~> \/ /\ call[c].pc = "returned"
                  /\ call[c].result >= 1
                  /\ call[c].result <= store[Key(c)].version
               \/ \E s \in Senders : TransportError(s)

C3_Witness ==
    /\ \A c \in Callers : call[c].pc = "returned" /\ call[c].result = store[Key(c)].version
    /\ \A s \in Senders : ~TransportError(s)
    /\ \E c, d \in Callers : call[c].partition # call[d].partition

\* C4: every caller suspended in a batch on which send() has been invoked
\* eventually observes a version or an error.
C4_EveryCallerObserves ==
    \A c \in Callers :
        (call[c].pc = "waiting" /\ \E s \in Senders : Invoked(s)) ~> Finished(c)

\* C5: when a partition's transport call has failed, the callers registered in
\* that partition eventually observe that error and the callers of the other
\* partitions eventually return a version.
C5_FailureReachesItsCallers ==
    \A c \in Callers : \A s \in Senders :
        (call[c].pc = "waiting" /\ TransportError(s))
            ~> IF call[c].partition = sender[s].req.partition
               THEN call[c].pc = "raised" /\ call[c].error = sender[s].error
               ELSE call[c].pc = "returned"

\* C6 as stated: in a step taken once send() has been invoked, the pending
\* entries do not change and no registration is accepted.
C6_NoRegistrationAfterInvoke ==
    [][(\E s \in Senders : Invoked(s)) =>
          /\ Pending(batch') = Pending(batch)
          /\ \A c \in Callers : call[c].pc = "idle" => call'[c].pc \in {"idle", "raised"}]_vars

\* C6 amended: in a step taken once a send() is past its yield (it has started
\* to build its requests), the pending entries do not change and every
\* registration is rejected with the single-use assertion.
C6_NoRegistrationAfterClose ==
    [][(\E s \in Senders : sender[s].pc \notin {"idle", "yield"}) =>
          /\ Pending(batch') = Pending(batch)
          /\ \A c \in Callers :
                (call[c].pc = "idle" /\ call'[c].pc # "idle") =>
                    call'[c].pc = "raised" /\ call'[c].error = "AssertionError"]_vars

C6_Witness ==
    \E c \in Callers, s \in Senders :
        /\ call[c].pc = "raised"
        /\ ~InBatch(batch, call[c].partition, call[c].clustering)
        /\ sender[s].pc = "await"

\* C7: a registration of a key that is already pending in its partition, made
\* before the batch is closed, raises at once: the caller does not suspend,
\* the pending entries stay as they were and no PUT is issued.
C7_DuplicateFailsFast ==
    [][\A c \in Callers :
          (/\ call[c].pc = "idle" /\ call'[c].pc # "idle"
           /\ in_process
           /\ InBatch(batch, call'[c].partition, call'[c].clustering))
          => /\ call'[c].pc = "raised"
             /\ call'[c].error = "AssertionError"
             /\ Pending(batch') = Pending(batch)
             /\ puts' = puts]_vars

C7_Witness ==
    \E c, d \in Callers :
        /\ in_process
        /\ call[c].pc = "raised"
        /\ call[d].pc = "waiting"
        /\ Key(c) = Key(d)
        /\ \A p \in Partitions : puts[p] = 0

\* C8: no partition is ever PUT more than once.
C8_AtMostOnePutPerPartition == \A p \in Partitions : puts[p] <= 1

\* C9: once a send() has returned normally, a get of the key of every
\* registered set or cas returns the value registered for it.
C9_GetReturnsRegistered ==
    (\E s \in Senders : sender[s].pc = "done") =>
        \A c \in Callers :
            Registered(c) =>
                get_entry(store, call[c].partition, call[c].clustering).value
                    = call[c].new_value

C9_Witness ==
    /\ sender[1].pc = "done"
    /\ \E c, d \in Callers :
          /\ Registered(c) /\ Registered(d)
          /\ call[c].partition # call[d].partition
          /\ call[c].old_version = NoVersion
          /\ call[d].old_version = 1
          /\ get_entry(store, call[d].partition, call[d].clustering).value = d

\* C10: when a send() has raised on the failure of one partition's call, the
\* writes of the partitions whose calls it had completed before are what a get
\* returns.
C10_NoCrossPartitionRollback ==
    \A s \in Senders :
        TransportError(s) =>
            \A i \in 1..(sender[s].idx - 1) : \A c \in Callers :
                (Registered(c) /\ call[c].partition = sender[s].requests[i]) =>
                    LET e == get_entry(store, call[c].partition, call[c].clustering)
                    IN e.value = call[c].new_value /\ e.version >= 1

C10_Witness ==
    \E s \in Senders, c, d \in Callers :
        /\ TransportError(s)
        /\ sender[s].idx = 2
        /\ call[c].partition = sender[s].requests[1]
        /\ call[d].partition = sender[s].requests[2]
        /\ call[c].pc = "waiting" /\ call[d].pc = "waiting"
        /\ get_entry(store, call[c].partition, call[c].clustering).value = c
        /\ get_entry(store, call[d].partition, call[d].clustering).value # d

(* ================================================ direct Entry operations *)
NumClients == 2       \* coroutines holding an Entry of their own
MaxOps == 2           \* Entry operations called in one run, all clients together
Clients == 1..NumClients
NoTx == 0             \* Python None as a transaction index
EntryKeys == {PreparedKey, <<"p2", "a">>}
Values(c) == {None, c}             \* what client c writes: None or a value of its own
WaitVersions == {NoVersion, 0}     \* the wait_version arguments of listen
CasVersions == {NoVersion, 1}      \* the old_version arguments of a direct cas

\* Entry.__init__ with all its fields (the checks are check_key and check_nrw below)
Entry_init(partition, clustering, version, value, n, r, w, transaction) ==
    [partition |-> partition, clustering |-> clustering,
     version |-> version, value |-> value,
     n |-> n, r |-> r, w |-> w, transaction |-> transaction]

\* Session.entry: no request, version 0 and no value
Session_entry(partition, clustering, n, r, w) ==
    Entry_init(partition, clustering, 0, None, n, r, w, NoTx)

\* one HTTP request of an Entry: url, params and json.  A param that is
\* None (NoVersion, NoTx) is not sent.
Request(method, entry, oldVersion, waitVersion, json) ==
    [method |-> method,
     partition |-> entry.partition, clustering |-> entry.clustering,
     n |-> entry.n, r |-> entry.r, w |-> entry.w,
     transaction |-> entry.transaction,
     oldVersion |-> oldVersion, waitVersion |-> waitVersion, json |-> json]

NoEntryRequest ==
    [method |-> "", partition |-> "", clustering |-> "", n |-> 0, r |-> 0, w |-> 0,
     transaction |-> NoTx, oldVersion |-> NoVersion, waitVersion |-> NoVersion,
     json |-> None]

\* Entry.get up to its await
GetRequest(entry) == Request("GET", entry, NoVersion, NoVersion, None)

\* mutant: an omitted wait_version is not sent
ListenRequestPlain(entry, wait_version) ==
    Request("GET", entry, NoVersion, wait_version, None)

\* Entry.listen up to its await: wait_version defaults to the cached version.
\* waitTimeout is left out: when a wait expires is the server's choice here.
ListenRequest(entry, wait_version) ==
    Request("GET", entry, NoVersion,
            IF wait_version = NoVersion THEN entry.version ELSE wait_version, None)

\* mutant: the value is not sent
SetRequestNoBody(entry, new_value) ==
    Request("PUT", entry, NoVersion, NoVersion, None)

\* mutant: the transaction of the Entry is not sent
SetRequestNoTx(entry, new_value) ==
    Request("PUT", [entry EXCEPT !.transaction = NoTx], NoVersion, NoVersion, new_value)

\* Entry.set up to its await (batch is None)
SetRequest(entry, new_value) ==
    Request("PUT", entry, NoVersion, NoVersion, new_value)

\* mutant: oldVersion is not sent
CasRequestUnconditional(entry, new_value, old_version) ==
    Request("PUT", entry, NoVersion, NoVersion, new_value)

\* Entry.cas up to its await (batch is None)
CasRequest(entry, new_value, old_version) ==
    Request("PUT", entry, CasOldVersion(entry, old_version), NoVersion, new_value)

\* the response of the server to one Entry request
Response(status, version, value) ==
    [status |-> status, version |-> version, value |-> value]

NoResponse == Response(NoCode, 0, None)

\* mutant: the cached version is not assigned
Entry_put_keep_version(entry, response, new_value) ==
    [entry EXCEPT !.value = new_value]

\* mutant: the cached value is not assigned
Entry_put_keep_value(entry, response, new_value) ==
    [entry EXCEPT !.version = response.version]

\* mutant: the cache counts the write once more than the server did
Entry_put_ahead(entry, response, new_value) ==
    [entry EXCEPT !.version = response.version + 1, !.value = new_value]

\* Entry.set / Entry.cas after a 200 response: the cache takes the version of
\* the body and the value that was sent
Entry_put(entry, response, new_value) ==
    [entry EXCEPT !.version = response.version, !.value = new_value]

\* mutant: the cache is assigned whatever the status
Entry_resume_eager(entry, op, response) ==
    IF op.name \in {"get", "listen"}
    THEN Entry_get(entry, response)
    ELSE Entry_put(entry, response, op.new_value)

\* an Entry operation after its await: raise_if_error first, the cache after
Entry_resume(entry, op, response) ==
    IF raise_if_error(response.status) # ""
    THEN entry
    ELSE IF op.name \in {"get", "listen"}
         THEN Entry_get(entry, response)
         ELSE Entry_put(entry, response, op.new_value)

\* what the operation returns: get/listen the value, set/cas the version
Entry_return(entry, op) ==
    IF op.name \in {"get", "listen"} THEN entry.value ELSE entry.version

(* ----------------------------------------- the server, one key at a time *)
\* GET: the stored version and value; with waitVersion only once the stored
\* version is greater, until then the request stays open or times out (408)
ServerEntryGet(st, req) ==
    LET key == <<req.partition, req.clustering>>
    IN  {[response |-> Response(408, 0, None), store |-> st]}
        \cup
        IF req.waitVersion = NoVersion \/ st[key].version > req.waitVersion
        THEN {[response |-> Response(200, st[key].version, st[key].value),
               store |-> st]}
        ELSE {}

\* PUT: the version is incremented and the value stored; with oldVersion
\* only if it is the stored version, 409 and nothing written otherwise
ServerEntryPut(st, req) ==
    LET key == <<req.partition, req.clustering>>
        new == [value |-> req.json, version |-> st[key].version + 1]
    IN  {[response |-> Response(408, 0, None), store |-> st]}
        \cup
        IF req.oldVersion = NoVersion \/ req.oldVersion = st[key].version
        THEN {[response |-> Response(200, new.version, None),
               store |-> [st EXCEPT ![key] = new]]}
        ELSE {[response |-> Response(409, 0, None), store |-> st]}

ServerEntryOutcomes(st, req) ==
    IF req.method = "GET" THEN ServerEntryGet(st, req) ELSE ServerEntryPut(st, req)

(* ------------------------------------------------------------ the clients *)
NoOp == [name |-> "", new_value |-> None, old_version |-> NoVersion,
         wait_version |-> NoVersion]

Client(entry) ==
    [pc |-> "ready", entry |-> entry, op |-> NoOp, req |-> NoEntryRequest,
     response |-> NoResponse, log |-> <<>>]

\* the operations called so far, finished or not
RECURSIVE OpsCalled(_, _)
OpsCalled(e, c) ==
    IF c = 0 THEN 0
    ELSE Len(e[c].log) + (IF e[c].pc = "ready" THEN 0 ELSE 1) + OpsCalled(e, c - 1)

EntryInit ==
    /\ store = [k \in Keys |-> Fresh]
    /\ in_process = TRUE
    /\ future = "pending"
    /\ batch = <<>>
    /\ call = [c \in Callers |-> IdleCall]
    /\ sender = [s \in Senders |-> IdleSender]
    /\ puts = [p \in Partitions |-> 0]
    /\ \E keys \in [Clients -> EntryKeys] :
          /\ keys[1] = PreparedKey
          /\ ent = [c \in Clients |->
                       Client(Session_entry(keys[c][1], keys[c][2], 3, 2, 2))]
    /\ txn = <<>>
    /\ scope = <<>>
    /\ probe = <<>>
    /\ loop = NoLoop

\* the request an operation sends
EntryRequest(entry, op) ==
    CASE op.name = "get" -> GetRequest(entry)
      [] op.name = "listen" -> ListenRequest(entry, op.wait_version)
      [] op.name = "set" -> SetRequest(entry, op.new_value)
      [] op.name = "cas" -> CasRequest(entry, op.new_value, op.old_version)

\* Entry.get / listen / set / cas from the call to the await of the request
EntryCall(c, op) ==
    /\ ent[c].pc = "ready"
    /\ OpsCalled(ent, NumClients) < MaxOps
    /\ ent' = [ent EXCEPT ![c].pc = "await", ![c].op = op,
                          ![c].req = EntryRequest(ent[c].entry, op),
                          ![c].response = NoResponse]
    /\ UNCHANGED <<store, bvars, txn, scope, probe>>

\* the server answers the request
ServerEntry(c) ==
    /\ ent[c].pc = "await"
    /\ \E out \in ServerEntryOutcomes(store, ent[c].req) :
          /\ store' = out.store
          /\ ent' = [ent EXCEPT ![c].pc = "resp", ![c].response = out.response]
    /\ UNCHANGED <<bvars, txn, scope, probe>>

\* the operation from the response to its return or its exception
EntryReturn(c) ==
    LET e == ent[c]
        entry == Entry_resume(e.entry, e.op, e.response)
        error == raise_if_error(e.response.status)
        done == [op |-> e.op, req |-> e.req, response |-> e.response,
                 before |-> e.entry, after |-> entry, error |-> error,
                 result |-> IF error = "" THEN Entry_return(entry, e.op) ELSE None]
    IN  /\ e.pc = "resp"
        /\ ent' = [ent EXCEPT ![c].pc = "ready", ![c].entry = entry,
                              ![c].log = Append(e.log, done)]
        /\ UNCHANGED <<store, bvars, txn, scope, probe>>

EntryOps(c) ==
    {[name |-> "get", new_value |-> None, old_version |-> NoVersion,
      wait_version |-> NoVersion]}
    \cup {[name |-> "listen", new_value |-> None, old_version |-> NoVersion,
           wait_version |-> wv] : wv \in WaitVersions}
    \cup {[name |-> "set", new_value |-> v, old_version |-> NoVersion,
           wait_version |-> NoVersion] : v \in Values(c)}
    \cup {[name |-> "cas", new_value |-> c, old_version |-> old,
           wait_version |-> NoVersion] : old \in CasVersions}

DoEntryCall == \E c \in Clients : \E op \in EntryOps(c) : EntryCall(c, op)
DoServerEntry == \E c \in Clients : ServerEntry(c)
DoEntryReturn == \E c \in Clients : EntryReturn(c)

EntryNext ==
    \/ DoEntryCall
    \/ DoServerEntry
    \/ DoEntryReturn

EntrySpec == EntryInit /\ [][EntryNext]_vars

(* ------------------------------------------- claims on the direct operations *)
EKey(c) == <<ent[c].entry.partition, ent[c].entry.clustering>>
IsPut(op) == op.name \in {"set", "cas"}
Succeeded(done) == done.error = ""

\* no other client writes, or has written, the key of client c
NoOtherWriter(c) ==
    \A d \in Clients \ {c} :
        EKey(d) = EKey(c) =>
            /\ \A i \in 1..Len(ent[d].log) : ~IsPut(ent[d].log[i].op)
            /\ ent[d].pc # "ready" => ~IsPut(ent[d].op)

\* the successful writes among the first i operations of a log
RECURSIVE WritesUpTo(_, _)
WritesUpTo(log, i) ==
    IF i = 0 THEN 0
    ELSE WritesUpTo(log, i - 1)
         + (IF IsPut(log[i].op) /\ Succeeded(log[i]) THEN 1 ELSE 0)

\* C11: a cas the server executes succeeds exactly when the old version it was
\* called with (the cached one when omitted) is the stored version at that
\* moment, and then stores the value under the next version; otherwise it is
\* answered 409, the store is left as it was, and the caller gets CasError.
C11_CasComparesAtServer ==
    [][\A c \in Clients :
          /\ (/\ ent[c].pc = "await" /\ ent'[c].pc = "resp"
              /\ ent[c].op.name = "cas"
              /\ ent'[c].response.status # 408) =>
                LET old == IF ent[c].op.old_version = NoVersion
                           THEN ent[c].entry.version ELSE ent[c].op.old_version
                    cur == store[EKey(c)]
                IN  IF old = cur.version
                    THEN /\ ent'[c].response.status = 200
                         /\ store' = [store EXCEPT ![EKey(c)] =
                                [value |-> ent[c].op.new_value,
                                 version |-> cur.version + 1]]
                    ELSE /\ ent'[c].response.status = 409
                         /\ store' = store
          /\ (/\ ent[c].pc = "resp" /\ ent'[c].pc = "ready"
              /\ ent[c].op.name = "cas") =>
                LET done == ent'[c].log[Len(ent'[c].log)]
                IN  /\ ent[c].response.status = 409 <=> done.error = "CasError"
                    /\ ent[c].response.status = 200 <=> done.error = ""
      ]_vars

C11_Witness ==
    \E c, d \in Clients :
        /\ c # d /\ EKey(c) = EKey(d)
        /\ Len(ent[c].log) = 1 /\ Len(ent[d].log) = 1
        /\ ent[d].log[1].op.name = "cas" /\ Succeeded(ent[d].log[1])
        /\ ent[c].log[1].op.name = "cas" /\ ent[c].log[1].error = "CasError"
        /\ store[EKey(c)] = [value |-> d, version |-> 1]

\* C12: when no other client writes the key, a successful get that follows a
\* successful set(v) of the same Entry returns v (None included), and the
\* version it reads is one more than the version the key had before the set.
C12_SetThenGet ==
    \A c \in Clients :
        NoOtherWriter(c) =>
            \A i \in 1..(Len(ent[c].log) - 1) :
                LET s == ent[c].log[i]
                    g == ent[c].log[i + 1]
                IN  (/\ s.op.name = "set" /\ Succeeded(s)
                     /\ g.op.name = "get" /\ Succeeded(g)) =>
                        /\ g.result = s.op.new_value
                        /\ g.after.value = s.op.new_value
                        /\ g.after.version = WritesUpTo(ent[c].log, i - 1) + 1

C12_Witness ==
    \E c \in Clients :
        /\ NoOtherWriter(c)
        /\ Len(ent[c].log) = 2
        /\ ent[c].log[1].op.name = "set" /\ Succeeded(ent[c].log[1])
        /\ ent[c].log[1].op.new_value = c
        /\ ent[c].log[2].op.name = "get" /\ ent[c].log[2].result = c
        /\ ent[c].entry.version = 1

\* no PUT on key k has been executed
NeverWritten(k) ==
    \A c \in Clients :
        EKey(c) = k =>
            /\ \A i \in 1..Len(ent[c].log) :
                  ~(IsPut(ent[c].log[i].op) /\ ent[c].log[i].response.status = 200)
            /\ ~(ent[c].pc = "resp" /\ IsPut(ent[c].op) /\ ent[c].response.status = 200)

\* C13: a key no PUT was executed on is read with version 0, and the version
\* a successful set or cas returns is greater than the version the Entry had
\* cached when the operation was called.
C13_VersionIncreases ==
    /\ \A k \in Keys : NeverWritten(k) => ServerGet(store, k).version = 0
    /\ \A c \in Clients : \A i \in 1..Len(ent[c].log) :
          LET done == ent[c].log[i]
          IN  (IsPut(done.op) /\ Succeeded(done)) =>
                  /\ done.result > done.before.version
                  /\ done.after.version > done.before.version

C13_Witness ==
    \E c \in Clients :
        /\ Len(ent[c].log) = 2
        /\ ent[c].log[1].op.name = "set" /\ Succeeded(ent[c].log[1])
        /\ ent[c].log[2].op.name = "cas" /\ Succeeded(ent[c].log[2])
        /\ ent[c].log[2].before.version = 1
        /\ ent[c].log[2].result = 2
        /\ \E k \in Keys : NeverWritten(k) /\ store[k].version = 0

\* C15: a cas called without old_version sends the cached version as
\* oldVersion; called first on the Entry of Session.entry for a key nobody
\* else writes, it succeeds unless it times out, and a successful get after
\* it returns the value it wrote.
C15_CasDefaultsToCached ==
    \A c \in Clients : \A i \in 1..Len(ent[c].log) :
        LET done == ent[c].log[i]
        IN  (done.op.name = "cas" /\ done.op.old_version = NoVersion) =>
                /\ done.req.oldVersion = done.before.version
                /\ (i = 1 /\ NoOtherWriter(c) /\ done.response.status # 408) =>
                      /\ Succeeded(done)
                      /\ (/\ Len(ent[c].log) > 1
                          /\ ent[c].log[2].op.name = "get"
                          /\ Succeeded(ent[c].log[2])) =>
                             ent[c].log[2].result = done.op.new_value

C15_Witness ==
    \E c \in Clients :
        /\ NoOtherWriter(c)
        /\ Len(ent[c].log) = 2
        /\ ent[c].log[1].op.name = "cas"
        /\ ent[c].log[1].op.old_version = NoVersion
        /\ ent[c].log[1].before.version = 0
        /\ Succeeded(ent[c].log[1])
        /\ ent[c].log[2].op.name = "get" /\ ent[c].log[2].result = c

\* C16: an Entry operation that ends with an exception leaves the cached
\* version and value as they were when it was called.
C16_FailureKeepsCache ==
    \A c \in Clients : \A i \in 1..Len(ent[c].log) :
        LET done == ent[c].log[i]
        IN  ~Succeeded(done) =>
                /\ done.after.version = done.before.version
                /\ done.after.value = done.before.value
                /\ (i < Len(ent[c].log) => ent[c].log[i + 1].before = done.before)
                /\ (i = Len(ent[c].log) => ent[c].entry = done.before)

C16_Witness ==
    \E c \in Clients :
        /\ Len(ent[c].log) = 2
        /\ ent[c].log[1].op.name = "set" /\ Succeeded(ent[c].log[1])
        /\ ent[c].log[1].op.new_value = c
        /\ ent[c].log[2].op.name = "listen"
        /\ ent[c].log[2].error = "TimeoutError"
        /\ ent[c].entry.version = 1 /\ ent[c].entry.value = c

\* C17: a listen returns a value only with a version greater than the
\* wait_version it was called with, the cached version when it was omitted;
\* any other end of a listen is TimeoutError.
C17_ListenReturnsNewer ==
    \A c \in Clients : \A i \in 1..Len(ent[c].log) :
        LET done == ent[c].log[i]
            wv == IF done.op.wait_version = NoVersion
                  THEN done.before.version ELSE done.op.wait_version
        IN  done.op.name = "listen" =>
                /\ done.req.waitVersion = wv
                /\ Succeeded(done) =>
                      /\ done.response.version > wv
                      /\ done.after.version = done.response.version
                      /\ done.result = done.response.value
                /\ ~Succeeded(done) => done.error = "TimeoutError"

C17_Witness ==
    \E c, d \in Clients :
        /\ c # d
        /\ Len(ent[c].log) = 1 /\ Len(ent[d].log) = 1
        /\ ent[c].log[1].op.name = "listen"
        /\ ent[c].log[1].op.wait_version = NoVersion
        /\ Succeeded(ent[c].log[1])
        /\ ent[d].log[1].op.name = "set"
        /\ ent[c].log[1].result = d
        /\ ent[c].entry.version = 1

\* A program that writes through a batch, or one that writes directly.
DualInit == Init \/ EntryInit

DualNext ==
    \/ ent = <<>> /\ DoRegister
    \/ ent = <<>> /\ DoResume
    \/ ent = <<>> /\ DoSendInvoke
    \/ ent = <<>> /\ DoSendAfterYield
    \/ ent = <<>> /\ DoServerPut
    \/ ent = <<>> /\ DoSendResume
    \/ ent # <<>> /\ DoEntryCall
    \/ ent # <<>> /\ DoServerEntry
    \/ ent # <<>> /\ DoEntryReturn

DualSpec == DualInit /\ [][DualNext]_vars

\* C14: once a set or cas has returned, through a batch or directly, the value
\* the Entry caches is the value that was written and the version it caches is
\* the version the operation returned, the one of the server's response.
C14_CacheHoldsTheWrite ==
    /\ \A c \in Callers :
          call[c].pc = "returned" =>
              /\ call[c].value = call[c].new_value
              /\ call[c].version = call[c].result
    /\ ent # <<>> =>
          \A c \in Clients : \A i \in 1..Len(ent[c].log) :
              LET done == ent[c].log[i]
              IN  (IsPut(done.op) /\ Succeeded(done)) =>
                      /\ done.after.value = done.op.new_value
                      /\ done.after.version = done.result
                      /\ done.result = done.response.version
                      /\ (i = Len(ent[c].log) => ent[c].entry = done.after)

C14_Witness ==
    /\ ent # <<>>
    /\ \E c \in Clients :
          /\ Len(ent[c].log) = 2
          /\ ent[c].log[1].op.name = "set" /\ ent[c].log[1].op.new_value = None
          /\ Succeeded(ent[c].log[1])
          /\ ent[c].log[2].op.name = "set" /\ ent[c].log[2].op.new_value = c
          /\ Succeeded(ent[c].log[2])
          /\ ent[c].entry.value = c /\ ent[c].entry.version = 2

(* ================================================= raise_if_error, alone *)
MinCode == 100
MaxCode == 599
StatusCodes == MinCode..MaxCode

\* everything but the probe is at rest
AtRest ==
    /\ store = [k \in Keys |-> Fresh]
    /\ in_process = TRUE
    /\ future = "pending"
    /\ batch = <<>>
    /\ call = [c \in Callers |-> IdleCall]
    /\ sender = [s \in Senders |-> IdleSender]
    /\ puts = [p \in Partitions |-> 0]
    /\ ent = <<>>
    /\ txn = <<>>
    /\ scope = <<>>
    /\ loop = NoLoop

\* a response with any status code has arrived
CodeInit ==
    /\ AtRest
    /\ \E code \in StatusCodes :
          probe = [pc |-> "response", code |-> code, error |-> "", args |-> <<>>]

\* raise_if_error(response.status_code)
RaiseIfError ==
    /\ probe.pc = "response"
    /\ probe' = [probe EXCEPT !.pc = "done",
                              !.error = raise_if_error(probe.code),
                              !.args = raise_if_error_args(probe.code)]
    /\ UNCHANGED <<store, bvars, ent, txn, scope>>

CodeNext == RaiseIfError

CodeSpec == CodeInit /\ [][CodeNext]_vars

\* C18: every status code is mapped, and always the same way: 200 raises
\* nothing, 401 the authentication failure, 408 the timeout, 409 the CAS
\* conflict, 410 transaction-not-found, 412 transaction-completed, and every
\* other code the generic KvError whose message carries the code.
C18_StatusMapping ==
    /\ probe.pc = "response" => ENABLED RaiseIfError
    /\ probe.pc = "done" =>
          /\ probe.error =
                CASE probe.code = 200 -> ""
                  [] probe.code = 401 -> "AuthenticationFailedError"
                  [] probe.code = 408 -> "TimeoutError"
                  [] probe.code = 409 -> "CasError"
                  [] probe.code = 410 -> "TransactionNotFoundError"
                  [] probe.code = 412 -> "TransactionCompletedError"
                  [] OTHER -> "KvError"
          /\ probe.error = "KvError" => probe.args[Len(probe.args)] = probe.code
          /\ probe.error # "KvError" => probe.args = <<>>

C18_Witness ==
    /\ probe.pc = "done"
    /\ probe.code = 500
    /\ probe.error = "KvError"
    /\ probe.args = <<"Unexpected server error with code", 500>>

(* ================================================== checks of arguments *)
NotStr == "0"         \* stands for a key component that is not a str
NoLimit == -1         \* Python None as a limit
PartitionArgs == {<<>>, <<"p1">>, <<NotStr>>}
BoundArgs == {<<>>, <<"a">>, <<NotStr>>}     \* <<>> is None as well as []
LimitArgs == {NoLimit, 0, 1}
NRWArgs == {<<3, 2, 2>>, <<0, 0, 0>>, <<2, 3, 2>>, <<2, 2, 3>>}
Operations == {"entry", "get_entry", "get_version", "range", "query"}

\* utils/assertion.py: a key is a list of str, the partition key not empty
check_clustering(key) == \A i \in 1..Len(key) : key[i] # NotStr
check_key(key) == Len(key) > 0 /\ check_clustering(key)

\* utils/assertion.py: positive integers with r <= n and w <= n
check_nrw(n, r, w) == n >= 1 /\ r >= 1 /\ w >= 1 /\ r <= n /\ w <= n

\* utils/assertion.py: no limit, or a positive one
check_limit(limit) == limit = NoLimit \/ limit >= 1

ArgInit ==
    /\ AtRest
    /\ \E op \in Operations, partition \in PartitionArgs,
          first \in BoundArgs, last \in BoundArgs, limit \in LimitArgs,
          nrw \in NRWArgs :
          probe = [pc |-> "call", op |-> op, partition |-> partition,
                   first |-> first, last |-> last, limit |-> limit,
                   n |-> nrw[1], r |-> nrw[2], w |-> nrw[3],
                   error |-> "", requests |-> 0]

\* the call ends with ValidationError
Invalid == [probe EXCEPT !.pc = "done", !.error = "ValidationError"]

\* the call has built its object without a request
Built == [probe EXCEPT !.pc = "done"]

\* the call has handed its request to the transport
Requested == [probe EXCEPT !.pc = "done", !.requests = 1]

\* the checks of Entry.__init__
Entry_init_ok(partition, n, r, w) == check_key(partition) /\ check_nrw(n, r, w)

\* Session.entry: Entry.__init__ and no request
SessionEntry ==
    /\ probe.pc = "call" /\ probe.op = "entry"
    /\ probe' = IF Entry_init_ok(probe.partition, probe.n, probe.r, probe.w)
                THEN Built ELSE Invalid
    /\ UNCHANGED <<store, bvars, ent, txn, scope>>

\* Session.get_entry: Entry.__init__, then the GET of Entry.get
SessionGetEntry ==
    /\ probe.pc = "call" /\ probe.op = "get_entry"
    /\ probe' = IF Entry_init_ok(probe.partition, probe.n, probe.r, probe.w)
                THEN Requested ELSE Invalid
    /\ UNCHANGED <<store, bvars, ent, txn, scope>>

\* Session.get_version: the url is built and the GET issued, nothing checked
SessionGetVersion ==
    /\ probe.pc = "call" /\ probe.op = "get_version"
    /\ probe' = Requested
    /\ UNCHANGED <<store, bvars, ent, txn, scope>>

\* Session.range: partition, first, last and limit are checked, n, r, w are not
SessionRange ==
    /\ probe.pc = "call" /\ probe.op = "range"
    /\ probe' = IF /\ check_key(probe.partition)
                   /\ check_clustering(probe.first)
                   /\ check_clustering(probe.last)
                   /\ check_limit(probe.limit)
                THEN Requested ELSE Invalid
    /\ UNCHANGED <<store, bvars, ent, txn, scope>>

\* PartitionIndex.query: the GET is issued, nothing checked
IndexQuery ==
    /\ probe.pc = "call" /\ probe.op = "query"
    /\ probe' = Requested
    /\ UNCHANGED <<store, bvars, ent, txn, scope>>

ArgNext ==
    \/ SessionEntry
    \/ SessionGetEntry
    \/ SessionGetVersion
    \/ SessionRange
    \/ IndexQuery

ArgSpec == ArgInit /\ [][ArgNext]_vars

\* the arguments the operation takes that are not valid
BadArguments ==
    \/ probe.op \in {"entry", "get_entry", "get_version", "range"}
          /\ ~check_key(probe.partition)
    \/ probe.op \in {"entry", "get_entry", "get_version", "range"}
          /\ ~check_nrw(probe.n, probe.r, probe.w)
    \/ probe.op = "range"
          /\ ~(check_clustering(probe.first) /\ check_clustering(probe.last))
    \/ probe.op \in {"range", "query"} /\ ~check_limit(probe.limit)

\* C19: an operation called with a malformed partition key, a malformed
\* clustering bound, invalid replication parameters or an invalid limit ends
\* with ValidationError and has made no transport call.
C19_InvalidNeverSent ==
    (probe.pc = "done" /\ BadArguments) =>
        probe.error = "ValidationError" /\ probe.requests = 0

(* ========================================================== transactions *)
NumScopes == 2        \* `async with session.transaction()` blocks of a run
MaxBody == 2          \* requests made in the bodies, all blocks together
Scopes == 1..NumScopes
MaxWatched == 3       \* the same, in the runs with watched reads
TxKeys == {PreparedKey, <<"p2", "a">>}

(* ------------------------------------------------ the server's side of it *)
OpenTx == [state |-> "open", known |-> TRUE, writes |-> <<>>, watched |-> <<>>]

\* POST /v2/tx: a new open transaction, its index is the response
ServerBegin(tx) == Append(tx, OpenTx)

\* mutant: a finished transaction is served like an open one
TxStatus_lenient(tx, index) ==
    IF index \notin 1..Len(tx) THEN 410
    ELSE IF ~tx[index].known THEN 410
    ELSE 200

\* what a request naming transaction index is answered with: 410 for an index
\* the server does not know (any more), 412 for a finished transaction
TxStatus(tx, index) ==
    IF index \notin 1..Len(tx) THEN 410
    ELSE IF ~tx[index].known THEN 410
    ELSE IF tx[index].state # "open" THEN 412
    ELSE 200

\* the value of the last write to key among the first i buffered writes;
\* the stored value if there is none
RECURSIVE BufferedValue(_, _, _, _)
BufferedValue(st, writes, key, i) ==
    IF i = 0 THEN st[key].value
    ELSE IF writes[i].key = key THEN writes[i].value
    ELSE BufferedValue(st, writes, key, i - 1)

\* GET inside a transaction: its own writes, then what is committed; with
\* watch the key and the version read join the read-set of the transaction
ServerTxGet(st, tx, req, watch) ==
    LET key == <<req.partition, req.clustering>>
        index == req.transaction
        status == TxStatus(tx, index)
    IN  IF status # 200
        THEN [response |-> Response(status, 0, None), store |-> st, txn |-> tx]
        ELSE [response |-> Response(200, st[key].version,
                    BufferedValue(st, tx[index].writes, key, Len(tx[index].writes))),
              store |-> st,
              txn |-> IF watch
                      THEN [tx EXCEPT ![index].watched =
                              Append(@, [key |-> key, version |-> st[key].version])]
                      ELSE tx]

\* PUT inside a transaction: the write is kept with the transaction
ServerTxPut(st, tx, req) ==
    LET key == <<req.partition, req.clustering>>
        index == req.transaction
        status == TxStatus(tx, index)
    IN  IF status # 200
        THEN [response |-> Response(status, 0, None), store |-> st, txn |-> tx]
        ELSE [response |-> Response(200, st[key].version + 1, None),
              store |-> st,
              txn |-> [tx EXCEPT ![index].writes =
                          Append(@, [key |-> key, value |-> req.json])]]

\* the answers to a request of an Entry that may be bound to a transaction
ServerTxOutcomes(st, tx, req, watch) ==
    IF req.transaction = NoTx
    THEN {[response |-> out.response, store |-> out.store, txn |-> tx] :
            out \in ServerEntryOutcomes(st, req)}
    ELSE IF req.method = "GET" THEN {ServerTxGet(st, tx, req, watch)}
    ELSE {ServerTxPut(st, tx, req)}

\* the store once the first i buffered writes are applied
RECURSIVE ApplyWrites(_, _, _)
ApplyWrites(st, writes, i) ==
    IF i = 0 THEN st
    ELSE LET before == ApplyWrites(st, writes, i - 1)
             key == writes[i].key
         IN  [before EXCEPT ![key] = [value |-> writes[i].value,
                                      version |-> before[key].version + 1]]

\* mutant: the read-set is not looked at
WatchedIgnored(st, watched) == TRUE

\* every watched key still has the version that was read
WatchedUnchanged(st, watched) ==
    \A i \in 1..Len(watched) : st[watched[i].key].version = watched[i].version

\* mutant: a commit that fails on its read-set still stores the writes
ServerCommit_partial(st, tx, index) ==
    LET status == TxStatus(tx, index)
        written == ApplyWrites(st, tx[index].writes, Len(tx[index].writes))
    IN  IF status # 200
        THEN [status |-> status, store |-> st, txn |-> tx]
        ELSE IF WatchedUnchanged(st, tx[index].watched)
        THEN [status |-> 200, store |-> written,
              txn |-> [tx EXCEPT ![index].state = "committed"]]
        ELSE [status |-> 409, store |-> written,
              txn |-> [tx EXCEPT ![index].state = "rolled-back"]]

\* commit: the writes of an open transaction reach the store, unless a watched
\* key has changed: then the transaction is aborted as a whole (409)
ServerCommit(st, tx, index) ==
    LET status == TxStatus(tx, index)
    IN  IF status # 200
        THEN [status |-> status, store |-> st, txn |-> tx]
        ELSE IF WatchedUnchanged(st, tx[index].watched)
        THEN [status |-> 200,
              store |-> ApplyWrites(st, tx[index].writes, Len(tx[index].writes)),
              txn |-> [tx EXCEPT ![index].state = "committed"]]
        ELSE [status |-> 409, store |-> st,
              txn |-> [tx EXCEPT ![index].state = "rolled-back"]]

\* rollback of an open transaction: its writes are dropped
ServerRollback(st, tx, index) ==
    LET status == TxStatus(tx, index)
    IN  IF status # 200
        THEN [status |-> status, store |-> st, txn |-> tx]
        ELSE [status |-> 200, store |-> st,
              txn |-> [tx EXCEPT ![index].state = "rolled-back"]]

(* ------------------------------------------- TransactionContext, Transaction *)
\* Transaction.entry: an Entry bound to the transaction, no request
Transaction_entry(index, partition, clustering, n, r, w) ==
    Entry_init(partition, clustering, 0, None, n, r, w, index)

\* mutant: the exception of the body is swallowed
aexit_swallow(exc, completed) ==
    [call |-> IF completed THEN "" ELSE IF exc = "" THEN "commit" ELSE "rollback",
     raises |-> ""]

\* mutant: the transaction is finished whatever the body did
aexit_always(exc, completed) ==
    [call |-> IF exc = "" THEN "commit" ELSE "rollback", raises |-> exc]

\* TransactionContext.__aexit__: what it calls, and what the block raises
aexit(exc, completed) ==
    [call |-> IF completed THEN "" ELSE IF exc = "" THEN "commit" ELSE "rollback",
     raises |-> exc]

NewScope ==
    [pc |-> "start", tx |-> NoTx, completed |-> FALSE,
     writes |-> <<>>, reads |-> <<>>, requests |-> 0, status |-> NoCode,
     exc |-> "", exit_call |-> "", raised |-> "", after |-> {}]

\* the requests the bodies have made so far
RECURSIVE BodyOps(_, _)
BodyOps(sc, s) ==
    IF s = 0 THEN 0 ELSE sc[s].requests + BodyOps(sc, s - 1)

TxInit ==
    /\ store = [k \in Keys |-> Fresh]
    /\ in_process = TRUE
    /\ future = "pending"
    /\ batch = <<>>
    /\ call = [c \in Callers |-> IdleCall]
    /\ sender = [s \in Senders |-> IdleSender]
    /\ puts = [p \in Partitions |-> 0]
    /\ ent = <<>>
    /\ txn = <<>>
    /\ scope = [s \in Scopes |-> NewScope]
    /\ probe = <<>>
    /\ loop = NoLoop

\* Nothing suspends a block between the end of its body and the request of
\* __aexit__: no other block runs in between.
NoneLeaving == \A t \in Scopes : scope[t].pc # "exit"

\* __aenter__: Session.transaction_manual, the POST and the Transaction of
\* the index in the response.  The blocks are numbered in the order they are
\* entered.
ScopeEnter(s) ==
    /\ scope[s].pc = "start"
    /\ NoneLeaving
    /\ \A t \in Scopes : t < s => scope[t].pc # "start"
    /\ txn' = ServerBegin(txn)
    /\ scope' = [scope EXCEPT ![s].pc = "body", ![s].tx = Len(txn'),
                    ![s].after = {t \in Scopes : scope[t].pc = "done"}]
    /\ UNCHANGED <<store, bvars, ent, probe>>

\* a request of the body has been answered: the body goes on after a 200, the
\* exception of any other status leaves the body
Answered(sc, status) ==
    IF raise_if_error(status) = ""
    THEN [sc EXCEPT !.requests = @ + 1, !.status = status]
    ELSE [sc EXCEPT !.requests = @ + 1, !.status = status,
                    !.pc = "exit", !.exc = raise_if_error(status)]

\* in the body: tx.entry(key).set(value), request, answer and return
ScopeSet(s, key, value) ==
    /\ scope[s].pc = "body"
    /\ NoneLeaving
    /\ LET entry == Transaction_entry(scope[s].tx, key[1], key[2], 3, 2, 2)
           req == SetRequest(entry, value)
       IN  \E out \in ServerTxOutcomes(store, txn, req, FALSE) :
              /\ store' = out.store
              /\ txn' = out.txn
              /\ scope' = [scope EXCEPT ![s] =
                    LET sc == Answered(scope[s], out.response.status)
                    IN  IF out.response.status = 200
                        THEN [sc EXCEPT !.writes =
                                Append(@, [key |-> key, value |-> value])]
                        ELSE sc]
    /\ UNCHANGED <<bvars, ent, probe>>

\* in the body: tx.get_entry(key, watch), request, answer and return
ScopeGetEntry(s, key, watch) ==
    /\ scope[s].pc = "body"
    /\ NoneLeaving
    /\ LET entry == Transaction_entry(scope[s].tx, key[1], key[2], 3, 2, 2)
           req == GetRequest(entry)
       IN  \E out \in ServerTxOutcomes(store, txn, req, watch) :
              /\ store' = out.store
              /\ txn' = out.txn
              /\ scope' = [scope EXCEPT ![s] =
                    LET sc == Answered(scope[s], out.response.status)
                        got == Entry_resume(entry, [name |-> "get"], out.response)
                    IN  IF out.response.status = 200
                        THEN [sc EXCEPT !.reads =
                                Append(@, [key |-> key, value |-> got.value,
                                           version |-> got.version,
                                           watch |-> watch,
                                           written |-> \E i \in 1..Len(scope[s].writes) :
                                                  scope[s].writes[i].key = key])]
                        ELSE sc]
    /\ UNCHANGED <<bvars, ent, probe>>

\* in the body: tx.commit() or tx.rollback(); the Transaction is completed
\* once the call has been answered 200
ScopeFinish(s, how) ==
    /\ scope[s].pc = "body"
    /\ NoneLeaving
    /\ LET out == IF how = "commit"
                  THEN ServerCommit(store, txn, scope[s].tx)
                  ELSE ServerRollback(store, txn, scope[s].tx)
       IN  /\ store' = out.store
           /\ txn' = out.txn
           /\ scope' = [scope EXCEPT ![s] =
                 [Answered(scope[s], out.status) EXCEPT
                    !.completed = scope[s].completed \/ out.status = 200]]
    /\ UNCHANGED <<bvars, ent, probe>>

\* the body ends, normally (exc = "") or with an exception of the program
ScopeLeave(s, exc) ==
    /\ scope[s].pc = "body"
    /\ NoneLeaving
    /\ scope' = [scope EXCEPT ![s].pc = "exit", ![s].exc = exc]
    /\ UNCHANGED <<store, bvars, ent, txn, probe>>

\* __aexit__: commit or rollback unless the Transaction is completed; the
\* exception of the body goes on to the caller, and so does a failed commit
ScopeExit(s) ==
    /\ scope[s].pc = "exit"
    /\ LET exit == aexit(scope[s].exc, scope[s].completed)
           out == IF exit.call = "commit"
                  THEN ServerCommit(store, txn, scope[s].tx)
                  ELSE IF exit.call = "rollback"
                  THEN ServerRollback(store, txn, scope[s].tx)
                  ELSE [status |-> 200, store |-> store, txn |-> txn]
       IN  /\ store' = out.store
           /\ txn' = out.txn
           /\ scope' = [scope EXCEPT ![s].pc = "done",
                    ![s].exit_call = exit.call,
                    ![s].status = IF exit.call = "" THEN @ ELSE out.status,
                    ![s].raised = IF scope[s].exc # "" THEN exit.raises
                                  ELSE raise_if_error(out.status)]
    /\ UNCHANGED <<bvars, ent, probe>>

\* the server drops what it knew of a finished transaction; it shows only
\* while a block still holds the index
ServerForget(index) ==
    /\ txn[index].state # "open"
    /\ txn[index].known
    /\ NoneLeaving
    /\ \E s \in Scopes : scope[s].tx = index /\ scope[s].pc = "body"
    /\ txn' = [txn EXCEPT ![index].known = FALSE]
    /\ UNCHANGED <<store, bvars, ent, scope, probe>>

MoreBody == BodyOps(scope, NumScopes) < MaxBody

DoScopeEnter == \E s \in Scopes : ScopeEnter(s)
DoScopeSet == \E s \in Scopes : \E key \in TxKeys : MoreBody /\ ScopeSet(s, key, s)
DoScopeGetEntry == \E s \in Scopes : \E key \in TxKeys : MoreBody /\ ScopeGetEntry(s, key, FALSE)
DoScopeFinish == \E s \in Scopes : \E how \in {"commit", "rollback"} : MoreBody /\ ScopeFinish(s, how)
DoScopeLeave == \E s \in Scopes : \E exc \in {"", "Exception"} : ScopeLeave(s, exc)
DoScopeExit == \E s \in Scopes : ScopeExit(s)
DoServerForget == \E index \in 1..Len(txn) : ServerForget(index)

TxNext ==
    \/ DoScopeEnter
    \/ DoScopeSet
    \/ DoScopeGetEntry
    \/ DoScopeFinish
    \/ DoScopeLeave
    \/ DoScopeExit
    \/ DoServerForget

TxSpec == TxInit /\ [][TxNext]_vars

\* Blocks that read with watch=True, write, and end normally.
MoreWatched == BodyOps(scope, NumScopes) < MaxWatched

DoWatchedSet == \E s \in Scopes : \E key \in TxKeys : MoreWatched /\ ScopeSet(s, key, s)
DoWatchedGetEntry == \E s \in Scopes : \E key \in TxKeys : MoreWatched /\ ScopeGetEntry(s, key, TRUE)
DoWatchedLeave == \E s \in Scopes : ScopeLeave(s, "")

WatchNext ==
    \/ DoScopeEnter
    \/ DoWatchedSet
    \/ DoWatchedGetEntry
    \/ DoWatchedLeave
    \/ DoScopeExit

WatchSpec == TxInit /\ [][WatchNext]_vars

(* ------------------------------------------------- claims on transactions *)
RECURSIVE LastWrite(_, _, _)
LastWrite(writes, key, i) ==
    IF i = 0 THEN None
    ELSE IF writes[i].key = key THEN writes[i].value
    ELSE LastWrite(writes, key, i - 1)

Wrote(s, key) == \E i \in 1..Len(scope[s].writes) : scope[s].writes[i].key = key

\* C20: a block that has been entered has a transaction of its own, open as
\* long as the body has not finished it itself; a block whose body ended
\* normally has committed it and raises nothing, and what it wrote is read by
\* a transaction begun after it (no third block writing the key); a block
\* whose body raised has rolled its transaction back and raises that same
\* exception.
C20_ScopeCommitsOrRollsBack ==
    \A s \in Scopes :
        /\ (scope[s].pc = "body" /\ ~scope[s].completed) =>
              txn[scope[s].tx].state = "open"
        /\ scope[s].pc # "start" =>
              \A t \in Scopes \ {s} : scope[t].pc # "start" => scope[t].tx # scope[s].tx
        /\ (scope[s].pc = "done" /\ scope[s].exc = "" /\ ~scope[s].completed) =>
              /\ scope[s].exit_call = "commit"
              /\ txn[scope[s].tx].state = "committed"
              /\ scope[s].raised = ""
              /\ \A t \in Scopes : \A i \in 1..Len(scope[t].reads) :
                    LET read == scope[t].reads[i]
                    IN  (/\ s \in scope[t].after
                         /\ Wrote(s, read.key)
                         /\ ~read.written
                         /\ \A u \in Scopes \ {s, t} : ~Wrote(u, read.key)) =>
                            read.value = LastWrite(scope[s].writes, read.key,
                                                   Len(scope[s].writes))
        /\ (scope[s].pc = "done" /\ scope[s].exc # "" /\ ~scope[s].completed) =>
              /\ scope[s].exit_call = "rollback"
              /\ txn[scope[s].tx].state = "rolled-back"
              /\ scope[s].raised = scope[s].exc

C20_Witness ==
    \E s, t \in Scopes :
        /\ scope[s].pc = "done" /\ scope[s].exc = "" /\ ~scope[s].completed
        /\ scope[s].writes = <<[key |-> PreparedKey, value |-> s]>>
        /\ s \in scope[t].after
        /\ scope[t].reads = <<[key |-> PreparedKey, value |-> s, version |-> 1,
                               watch |-> FALSE, written |-> FALSE]>>
        /\ scope[t].pc = "done" /\ scope[t].exc = "Exception"
        /\ ~scope[t].completed
        /\ scope[t].raised = "Exception"
        /\ txn[scope[t].tx].state = "rolled-back"

\* C21: a transaction is finished at most once: its state only ever goes from
\* open to committed or from open to rolled-back and a finished transaction
\* keeps its state; and leaving a block whose body has already committed or
\* rolled back sends no commit and no rollback.
C21_Step ==
    /\ \A i \in 1..Len(txn) :
          /\ i \in 1..Len(txn')
          /\ txn'[i].state \in {"open", "committed", "rolled-back"}
          /\ txn[i].state # "open" => txn'[i].state = txn[i].state
    /\ \A s \in Scopes :
          (scope[s].pc = "exit" /\ scope'[s].pc = "done" /\ scope[s].completed) =>
              /\ scope'[s].exit_call = ""
              /\ txn' = txn
              /\ store' = store

C21_FinishedOnce == [][C21_Step]_vars

\* a body that committed, then tried to roll back (412), and a block left
\* without a further call
C21_Witness ==
    \E s \in Scopes :
        /\ scope[s].pc = "done"
        /\ scope[s].completed
        /\ scope[s].requests = 2
        /\ scope[s].status = 412
        /\ scope[s].exit_call = ""
        /\ txn[scope[s].tx].state = "committed"

\* the transaction of block s has been rolled back
RolledBack(s) ==
    scope[s].pc # "start" /\ txn[scope[s].tx].state = "rolled-back"

Commits(t) ==
    /\ scope[t].pc = "exit"
    /\ scope'[t].pc = "done"
    /\ scope'[t].exit_call = "commit"

\* block t has read, with watch=True, a key that has been changed since: the
\* version stored is no longer the one the Entry of the read came back with
WatchedChanged(t) ==
    \E i \in 1..Len(scope[t].reads) :
        LET read == scope[t].reads[i]
        IN  read.watch /\ store[read.key].version # read.version

\* C23: when a block has read a key with watch=True and another block has
\* committed a change of that key before the first one commits, the commit of
\* the first block fails: it is answered 409, the block raises CasError and
\* its transaction is rolled back, whatever the order of the other steps.
C23_Step ==
    \A t \in Scopes :
        (Commits(t) /\ WatchedChanged(t)) =>
            /\ scope'[t].status = 409
            /\ scope'[t].raised = "CasError"
            /\ txn'[scope[t].tx].state = "rolled-back"

C23_WatchedChangeFailsCommit == [][C23_Step]_vars

\* the two blocks ran side by side: t read the key, s wrote and committed
\* it, then t committed
C23_Witness ==
    \E s, t \in Scopes :
        /\ s # t
        /\ s \notin scope[t].after /\ t \notin scope[s].after
        /\ scope[s].pc = "done" /\ scope[s].raised = ""
        /\ scope[s].writes = <<[key |-> PreparedKey, value |-> s]>>
        /\ scope[t].reads = <<[key |-> PreparedKey, value |-> None, version |-> 0,
                               watch |-> TRUE, written |-> FALSE]>>
        /\ scope[t].pc = "done" /\ scope[t].exit_call = "commit"
        /\ scope[t].raised = "CasError"
        /\ store[PreparedKey] = [value |-> s, version |-> 1]

\* C24: a commit that fails because a watched key has changed stores nothing
\* of its transaction: every key keeps the value and the version it had, and
\* no value the block wrote is stored afterwards.
C24_Step ==
    \A t \in Scopes :
        /\ (Commits(t) /\ scope'[t].status = 409) =>
              \A key \in Keys : store'[key] = store[key]
        /\ (scope'[t].pc = "done" /\ scope'[t].exit_call = "commit"
                /\ scope'[t].status = 409) =>
              \A key \in Keys : store'[key].value # t

C24_FailedCommitStoresNothing == [][C24_Step]_vars

\* t read one key with watch=True and wrote the other, s changed the watched
\* key: the commit of t failed and the key t wrote is as it was
C24_Witness ==
    \E s, t \in Scopes :
        /\ s # t
        /\ scope[s].pc = "done" /\ scope[s].raised = ""
        /\ scope[s].writes = <<[key |-> PreparedKey, value |-> s]>>
        /\ Len(scope[t].reads) = 1
        /\ scope[t].reads[1].key = PreparedKey /\ scope[t].reads[1].watch
        /\ scope[t].writes = <<[key |-> <<"p2", "a">>, value |-> t]>>
        /\ scope[t].pc = "done" /\ scope[t].status = 409
        /\ store[<<"p2", "a">>] = Fresh

\* a step in which block s sends a request of its transaction: an operation
\* of an Entry, commit or rollback
Requests(s) ==
    \/ scope'[s].requests = scope[s].requests + 1
    \/ scope[s].pc = "exit" /\ scope'[s].pc = "done" /\ scope'[s].exit_call # ""

\* C25: a request on a transaction that has been committed or rolled back is
\* answered 412 and raises TransactionCompletedError, a request on a
\* transaction the server does not know 410 and TransactionNotFoundError;
\* neither changes what is stored.
C25_Step ==
    \A s \in Scopes : Requests(s) =>
        LET tx == txn[scope[s].tx]
        IN  /\ (tx.known /\ tx.state # "open") =>
                  /\ scope'[s].status = 412
                  /\ scope'[s].exc = "TransactionCompletedError"
                  /\ store' = store
            /\ ~tx.known =>
                  /\ scope'[s].status = 410
                  /\ scope'[s].exc = "TransactionNotFoundError"
                  /\ store' = store

C25_FinishedOrUnknown == [][C25_Step]_vars

\* a body committed, the server forgot the transaction, and the next request
\* of the body was answered 410
C25_Witness ==
    \E s \in Scopes :
        /\ scope[s].completed
        /\ txn[scope[s].tx].state = "committed"
        /\ ~txn[scope[s].tx].known
        /\ scope[s].requests = 2
        /\ scope[s].status = 410
        /\ scope[s].exc = "TransactionNotFoundError"

(* =================================================== ranges and the tree *)
MaxTree == 3          \* cursor.set calls of a run
MaxSteps == 2         \* next() / prev() calls on the cursors of one walk
Letters == <<"A", "B">>
TreeKeys == {<<"A">>, <<"A", "A">>, <<"A", "B">>, <<"B">>, <<"B", "A">>}
BoundKeys == TreeKeys \cup {<<>>}
TreeValues == {1, 2}

\* an argument that may be None
Absent == [some |-> FALSE, key |-> <<>>]
Some(key) == [some |-> TRUE, key |-> key]
Bounds == {Absent} \cup {Some(key) : key \in BoundKeys}
Limits == {NoLimit} \cup 1..MaxTree

(* ------------------------------------------------ the server's side of it *)
Rank(letter) == CHOOSE i \in 1..Len(Letters) : Letters[i] = letter

\* the order of the keys: part by part, a prefix before what it is a prefix of
RECURSIVE KeyLess(_, _)
KeyLess(a, b) ==
    IF a = <<>> THEN b # <<>>
    ELSE IF b = <<>> THEN FALSE
    ELSE IF Head(a) = Head(b) THEN KeyLess(Tail(a), Tail(b))
    ELSE Rank(Head(a)) < Rank(Head(b))

\* the keys that have been written
Present(st) == {key \in TreeKeys : st[key].version > 0}

\* the keys of a set in ascending order
RECURSIVE Ascending(_)
Ascending(keys) ==
    IF keys = {} THEN <<>>
    ELSE LET least == CHOOSE k \in keys : \A j \in keys \ {k} : KeyLess(k, j)
         IN  <<least>> \o Ascending(keys \ {least})

Take(seq, limit) ==
    IF limit = NoLimit \/ limit >= Len(seq) THEN seq ELSE SubSeq(seq, 1, limit)

\* the range of a partition or of a tree: the keys after `from`, up to `to`
\* and `to` itself, ascending, the first `limit` of them
ServerRange(st, from, to, limit) ==
    LET keys == {key \in Present(st) :
                    /\ from.some => KeyLess(from.key, key)
                    /\ to.some => ~KeyLess(to.key, key)}
        found == Take(Ascending(keys), limit)
    IN  [i \in 1..Len(found) |->
            [key |-> found[i], version |-> st[found[i]].version,
             value |-> st[found[i]].value]]

\* a key in the query string: one value of the parameter for every part of
\* the key, and no parameter at all for None
QueryValues(bound) == IF bound.some THEN bound.key ELSE <<>>

\* what the server makes of the values of a parameter
QueryKey(values) == IF values = <<>> THEN Absent ELSE Some(values)

(* ------------------------------------------------ Session.range and Tree *)
\* Session.range: the GET with from, to, limit and an Entry for every
\* element of the body, in the order of the body
Session_range(st, partition, first, last, limit) ==
    LET body == ServerRange(st, QueryKey(QueryValues(first)),
                            QueryKey(QueryValues(last)), limit)
    IN  [i \in 1..Len(body) |->
            Entry_init(partition, body[i].key, body[i].version, body[i].value,
                       3, 2, 2, NoTx)]

NoCursor == [some |-> FALSE, key |-> <<>>, value |-> None]
Cursor(key, value) == [some |-> TRUE, key |-> key, value |-> value]

\* Tree.range: a Cursor for every key of the range
Tree_range(st, first, last, limit) ==
    LET body == ServerRange(st, first, last, limit)
    IN  [i \in 1..Len(body) |-> Cursor(body[i].key, body[i].value)]

\* Tree.get_cursor: the cursor of the key with what is stored under it
Tree_get_cursor(st, key) == Cursor(key, st[key].value)

\* mutant: next() stays on a key that is stored
Cursor_next_same(st, cursor) ==
    LET later == {key \in Present(st) : ~KeyLess(key, cursor.key)}
    IN  IF later = {} THEN NoCursor
        ELSE LET key == Ascending(later)[1] IN Cursor(key, st[key].value)

\* Cursor.next: the cursor of the least key after this one, None at the end
Cursor_next(st, cursor) ==
    LET later == {key \in Present(st) : KeyLess(cursor.key, key)}
    IN  IF later = {} THEN NoCursor
        ELSE LET key == Ascending(later)[1] IN Cursor(key, st[key].value)

\* mutant: prev() goes back to the first key
Cursor_prev_first(st, cursor) ==
    LET earlier == {key \in Present(st) : KeyLess(key, cursor.key)}
    IN  IF earlier = {} THEN NoCursor
        ELSE LET key == Ascending(earlier)[1]
             IN  Cursor(key, st[key].value)

\* Cursor.prev: the cursor of the greatest key before this one, None at the
\* beginning
Cursor_prev(st, cursor) ==
    LET earlier == {key \in Present(st) : KeyLess(key, cursor.key)}
    IN  IF earlier = {} THEN NoCursor
        ELSE LET key == Ascending(earlier)[Cardinality(earlier)]
             IN  Cursor(key, st[key].value)

(* ------------------------------------------------------------- the runs *)
NoProbe == [op |-> "", first |-> Absent, last |-> Absent, limit |-> NoLimit,
            result |-> <<>>, trail |-> <<>>, ops |-> <<>>, modified |-> <<>>,
            dirty |-> FALSE]

TreeInit ==
    /\ store = [key \in TreeKeys |-> Fresh]
    /\ in_process = TRUE
    /\ future = "pending"
    /\ batch = <<>>
    /\ call = [c \in Callers |-> IdleCall]
    /\ sender = [s \in Senders |-> IdleSender]
    /\ puts = [p \in Partitions |-> 0]
    /\ ent = <<>>
    /\ txn = <<>>
    /\ scope = <<>>
    /\ probe = NoProbe
    /\ loop = NoLoop

\* the cursor.set calls so far
RECURSIVE TreeWrites(_, _)
TreeWrites(st, keys) ==
    IF keys = {} THEN 0
    ELSE LET key == CHOOSE k \in keys : TRUE
         IN  st[key].version + TreeWrites(st, keys \ {key})

\* tree.cursor(key).set(value), or session.entry(partition, key).set(value),
\* before the one range of the run or along its one walk
CursorSet(key, value) ==
    /\ probe.op \in {"", "cursor"}
    /\ TreeWrites(store, TreeKeys) < MaxTree
    /\ store' = [store EXCEPT ![key] = [value |-> value, version |-> @.version + 1]]
    /\ probe' = IF probe.op = "cursor" THEN [probe EXCEPT !.dirty = TRUE] ELSE probe
    /\ UNCHANGED <<bvars, ent, txn, scope>>

\* session.range(partition, first, last, limit)
SessionRangeCall(first, last, limit) ==
    /\ probe.op = ""
    /\ check_clustering(first.key) /\ check_clustering(last.key) /\ check_limit(limit)
    /\ probe' = [NoProbe EXCEPT !.op = "Session.range", !.first = first,
                    !.last = last, !.limit = limit,
                    !.result = Session_range(store, <<"p1">>, first, last, limit)]
    /\ UNCHANGED <<store, bvars, ent, txn, scope>>

\* tree.range(first, last, limit)
TreeRangeCall(first, last, limit) ==
    /\ probe.op = ""
    /\ probe' = [NoProbe EXCEPT !.op = "Tree.range", !.first = first,
                    !.last = last, !.limit = limit,
                    !.result = Tree_range(store, first, last, limit)]
    /\ UNCHANGED <<store, bvars, ent, txn, scope>>

\* c = await tree.get_cursor(key): a walk begins
TreeGetCursor(key) ==
    /\ probe.op = ""
    /\ probe' = [NoProbe EXCEPT !.op = "cursor",
                    !.trail = <<Tree_get_cursor(store, key)>>]
    /\ UNCHANGED <<store, bvars, ent, txn, scope>>

\* the walk goes on from the cursor it has come to
Stepped(op, to) ==
    [probe EXCEPT !.trail = Append(@, to), !.ops = Append(@, op),
                  !.modified = Append(@, probe.dirty), !.dirty = FALSE]

\* c = await c.next() on the cursor the walk has come to
CursorNext ==
    /\ probe.op = "cursor"
    /\ Len(probe.ops) < MaxSteps
    /\ probe.trail[Len(probe.trail)].some
    /\ probe' = Stepped("next", Cursor_next(store, probe.trail[Len(probe.trail)]))
    /\ UNCHANGED <<store, bvars, ent, txn, scope>>

\* c = await c.prev()
CursorPrev ==
    /\ probe.op = "cursor"
    /\ Len(probe.ops) < MaxSteps
    /\ probe.trail[Len(probe.trail)].some
    /\ probe' = Stepped("prev", Cursor_prev(store, probe.trail[Len(probe.trail)]))
    /\ UNCHANGED <<store, bvars, ent, txn, scope>>

DoCursorSet == \E key \in TreeKeys : \E value \in TreeValues : CursorSet(key, value)
DoSessionRange == \E first \in Bounds : \E last \in Bounds : \E limit \in Limits :
                      SessionRangeCall(first, last, limit)
DoTreeRange == \E first \in Bounds : \E last \in Bounds : \E limit \in Limits :
                   TreeRangeCall(first, last, limit)
DoTreeGetCursor == \E key \in TreeKeys : TreeGetCursor(key)

TreeNext ==
    \/ DoCursorSet
    \/ DoSessionRange
    \/ DoTreeRange
    \/ DoTreeGetCursor
    \/ CursorNext
    \/ CursorPrev

TreeSpec == TreeInit /\ [][TreeNext]_vars

(* ------------------------------------------- claims on ranges and cursors *)
\* the keys of the result of the range the run has made
ResultKeys ==
    [i \in 1..Len(probe.result) |->
        IF probe.op = "Session.range" THEN probe.result[i].clustering
        ELSE probe.result[i].key]

\* the keys stored that the bounds of the range let through
InBounds ==
    {key \in Present(store) :
        /\ probe.first.some => KeyLess(probe.first.key, key)
        /\ probe.last.some => ~KeyLess(probe.last.key, key)}

\* C26: the result of Session.range and of Tree.range is in ascending key
\* order; it holds no key that is first or before first and none after last;
\* without a limit it holds every key after first up to last, last included;
\* with a limit it holds the first min(limit, count) of them.
C26_RangeBounds ==
    probe.op \in {"Session.range", "Tree.range"} =>
        /\ \A i, j \in 1..Len(ResultKeys) :
              i < j => KeyLess(ResultKeys[i], ResultKeys[j])
        /\ \A i \in 1..Len(ResultKeys) : ResultKeys[i] \in InBounds
        /\ Len(ResultKeys) = IF probe.limit = NoLimit \/ probe.limit > Cardinality(InBounds)
                             THEN Cardinality(InBounds) ELSE probe.limit
        /\ \A key \in InBounds :
              (\E i \in 1..Len(ResultKeys) : ResultKeys[i] = key)
              \/ \A i \in 1..Len(ResultKeys) : KeyLess(ResultKeys[i], key)

\* the cursor a step of the walk started from, the one it came to, and the call
StepFrom == probe.trail[Len(probe.trail)]
StepTo == probe'.trail[Len(probe'.trail)]
StepOp == probe'.ops[Len(probe'.ops)]

\* to is the cursor of the key next to from on the side the call looks at,
\* with the value stored under it; the no-cursor result if there is no such key
Neighbour(from, to, op) ==
    LET side == {key \in Present(store) :
                    IF op = "next" THEN KeyLess(from.key, key)
                    ELSE KeyLess(key, from.key)}
    IN  IF side = {} THEN to = NoCursor
        ELSE /\ to.some
             /\ to.key \in side
             /\ \A key \in side \ {to.key} :
                   IF op = "next" THEN KeyLess(to.key, key) ELSE KeyLess(key, to.key)
             /\ to.value = store[to.key].value

\* C27: next() returns the cursor of the key that immediately follows the key
\* of the cursor in the order of the tree, with the value of that key, and
\* prev() that of the key that immediately precedes it; next() on the last
\* key and prev() on the first return the no-cursor result, not an error.
C27_Step ==
    (probe.op = "cursor" /\ Len(probe'.trail) = Len(probe.trail) + 1) =>
        Neighbour(StepFrom, StepTo, StepOp)

C27_NextPrevNeighbour == [][C27_Step]_vars

\* a walk of two next() over a tree of two keys: the second key, then the end
C27_Witness ==
    /\ probe.op = "cursor"
    /\ probe.ops = <<"next", "next">>
    /\ probe.modified = <<FALSE, FALSE>>
    /\ Cardinality(Present(store)) = 2
    /\ probe.trail[1].some /\ probe.trail[1].key \in Present(store)
    /\ probe.trail[2].some /\ probe.trail[2].value = store[probe.trail[2].key].value
    /\ probe.trail[3] = NoCursor

\* a walk of next() then prev(), neither at an end, the tree not written to
\* since the first cursor was read
NextThenPrev ==
    /\ probe.op = "cursor"
    /\ probe.ops = <<"next", "prev">>
    /\ probe.modified = <<FALSE, FALSE>>
    /\ ~probe.dirty
    /\ probe.trail[2].some
    /\ probe.trail[3].some

\* C28 as stated: next() and then prev() on the result, neither at an end and
\* the tree not modified in between, come back to the key and the value of the
\* cursor the walk began with.
C28_NextPrevInverseAnyCursor ==
    NextThenPrev => probe.trail[3] = probe.trail[1]

\* C28: the same for a walk that began with the cursor of a key stored in the
\* tree.
C28_NextPrevInverse ==
    (NextThenPrev /\ probe.trail[1].key \in Present(store)) =>
        probe.trail[3] = probe.trail[1]

\* the walk went from the middle key of three to the last and back
C28_Witness ==
    /\ NextThenPrev
    /\ Cardinality(Present(store)) = 3
    /\ probe.trail[1].key \in Present(store)
    /\ \E key \in Present(store) : KeyLess(key, probe.trail[1].key)
    /\ probe.trail[3] = probe.trail[1]

(* ------------------------------------------ the transport calls of send() *)
\* C29: send() has the calls of its partitions on the wire together: when the
\* response of a partition has been received, the call of every later
\* partition has been started; and the completion signal is resolved only
\* when every call has been answered.
C29_PartitionCallsConcurrent ==
    /\ \A s \in Senders :
          (OnlyFirstSend /\ sender[s].pc = "resp") =>
              \A i \in sender[s].idx + 1..Len(sender[s].requests) :
                  puts[sender[s].requests[i]] >= 1
    /\ (OnlyFirstSend /\ future = "done") =>
          \A s \in Senders : sender[s].pc # "idle" =>
              /\ sender[s].pc = "done"
              /\ \A i \in 1..Len(sender[s].requests) :
                    puts[sender[s].requests[i]] = 1

(* ========================================================= the event loop *)
\* The tasks of asyncio run in the order they became ready.  A task is made
\* for a set / cas with the batch (ensure_future); send() is called by the
\* code that is running and, when it yields, is ready again behind the tasks
\* that were ready before.
CallTask(c) == [run |-> "call", id |-> c]
SendTask(s) == [run |-> "send", id |-> s]

Ready(task) == \E i \in 1..Len(loop.ready) : loop.ready[i] = task

\* the set / cas tasks that are ready and have not run yet
ScheduledCalls == {c \in Callers : Ready(CallTask(c))}

LoopInit ==
    /\ store = [k \in Keys |-> Fresh]
    /\ in_process = TRUE
    /\ future = "pending"
    /\ batch = <<>>
    /\ call = [c \in Callers |-> IdleCall]
    /\ sender = [s \in Senders |-> IdleSender]
    /\ puts = [p \in Partitions |-> 0]
    /\ ent = <<>>
    /\ txn = <<>>
    /\ scope = <<>>
    /\ probe = <<>>
    /\ loop = NoLoop

\* asyncio.ensure_future(entry.set(value, batch)): the task is ready, nothing
\* of it has run
Schedule(c) ==
    /\ call[c].pc = "idle"
    /\ ~Ready(CallTask(c))
    /\ \A d \in Callers : d < c => call[d].pc # "idle" \/ Ready(CallTask(d))
    /\ loop' = [loop EXCEPT !.ready = Append(@, CallTask(c))]
    /\ UNCHANGED <<store, in_process, future, batch, call, sender, puts>>

\* the loop runs the first ready task, a set / cas: Entry.set, BatchManual.set
\* up to `await self._future`
RunCall(c, p, k, op, old, n, r, w) ==
    /\ loop.ready # <<>>
    /\ Head(loop.ready) = CallTask(c)
    /\ Register(c, p, k, op, old, n, r, w)
    /\ loop' = [loop EXCEPT !.ready = Tail(@)]

\* the code that is running calls send(); asyncio.sleep(0) makes its task
\* ready again, last.  What the batch and the loop hold at the call is noted.
RunSendInvoke(s) ==
    /\ SendInvoke(s)
    /\ loop' = IF Len(batch) = 0
               THEN [ready |-> IF sender'[s].pc = "yield"
                               THEN Append(loop.ready, SendTask(s))
                               ELSE loop.ready,
                     by |-> s,
                     open |-> in_process,
                     scheduled |-> ScheduledCalls]
               ELSE loop

\* the loop runs the first ready task, the send() that yielded
RunSendAfterYield(s) ==
    /\ loop.ready # <<>>
    /\ Head(loop.ready) = SendTask(s)
    /\ SendAfterYield(s)
    /\ loop' = [loop EXCEPT !.ready = Tail(@)]

DoSchedule == \E c \in Callers : Schedule(c) /\ UNCHANGED <<ent, txn, scope, probe>>
DoRunCall ==
    \E c \in Callers, p \in Partitions, k \in Clusterings,
       op \in {"set", "cas"}, old \in OldVersions, nrw \in NRW :
        /\ (op = "set" => old = NoVersion)
        /\ RunCall(c, p, k, op, old, nrw[1], nrw[2], nrw[3])
        /\ UNCHANGED <<ent, txn, scope, probe>>
DoRunSendInvoke ==
    \E s \in Senders : RunSendInvoke(s) /\ UNCHANGED <<ent, txn, scope, probe>>
DoRunSendAfterYield ==
    \E s \in Senders : RunSendAfterYield(s) /\ UNCHANGED <<ent, txn, scope, probe>>

LoopNext ==
    \/ DoSchedule
    \/ DoRunCall
    \/ DoRunSendInvoke
    \/ DoRunSendAfterYield
    \/ DoResume
    \/ DoServerPut
    \/ DoSendResume

LoopSpec == LoopInit /\ [][LoopNext]_vars

\* the request of sender s for the partition of caller c carries the key and
\* the value of c
OnTheWire(s, c) ==
    \E i \in 1..Len(sender[s].req.body) :
        /\ sender[s].req.body[i].key = call[c].clustering
        /\ sender[s].req.body[i].value = call[c].new_value

\* C30: send() called on an open batch with no partition yields once, and
\* only then closes the batch and builds its requests; every set / cas task
\* that was ready when send() was called has run by then, has registered
\* (unless its key was registered already), has its partition among the
\* requests of this send() and its key and value in the request of that
\* partition.  send() called on a batch with a partition closes it without
\* yielding.
C30_Step ==
    \A s \in Senders :
        /\ (sender[s].pc = "idle" /\ sender'[s].pc # "idle") =>
              IF Len(batch) = 0
              THEN /\ sender'[s].pc = "yield"
                   /\ in_process' = in_process
                   /\ puts' = puts
              ELSE /\ sender'[s].pc # "yield"
                   /\ in_process' = FALSE
        /\ (sender[s].pc = "yield" /\ sender'[s].pc # "yield") =>
              /\ in_process' = FALSE
              /\ sender'[s].pc \in {"await", "done", "raised"}
              /\ (loop.by = s /\ loop.open) =>
                    \A c \in loop.scheduled :
                        /\ call[c].pc \in {"waiting", "raised"}
                        /\ call[c].pc = "raised" =>
                              \E d \in Callers \ {c} :
                                  /\ call[d].pc = "waiting"
                                  /\ Key(d) = Key(c)
                        /\ call[c].pc = "waiting" =>
                              \E i \in 1..Len(sender'[s].requests) :
                                  sender'[s].requests[i] = call[c].partition
        /\ (loop'.by = s /\ loop'.open /\ sender'[s].pc = "await") =>
              \A c \in loop'.scheduled :
                  (call'[c].pc = "waiting"
                      /\ call'[c].partition = sender'[s].req.partition) =>
                          \E i \in 1..Len(sender'[s].req.body) :
                              /\ sender'[s].req.body[i].key = call'[c].clustering
                              /\ sender'[s].req.body[i].value = call'[c].new_value

C30_YieldsOnceWhenEmpty == [][C30_Step]_vars

\* two tasks were ready when send() was called on the empty batch; both
\* registered during the yield, in two partitions, and the request of the
\* second partition is on the wire
C30_Witness ==
    \E s \in Senders :
        /\ loop.by = s /\ loop.open
        /\ loop.scheduled = {1, 2}
        /\ call[1].pc = "waiting" /\ call[2].pc = "waiting"
        /\ call[1].partition # call[2].partition
        /\ sender[s].pc = "await"
        /\ sender[s].idx = 2
        /\ OnTheWire(s, 2)

(* ------------------------------------------------ the batch, once closed *)
\* the partitions of a batch, in the order they were registered
BatchPartitions(b) == [i \in 1..Len(b) |-> b[i].key]

\* the pending entries of partition number i: key, new value, old version
PendingOf(b, i) ==
    [j \in 1..Len(b[i].batch) |->
        <<b[i].batch[j].key, b[i].batch[j].new_value, b[i].batch[j].old_version>>]

\* a send() is building or has built its requests
Building == \E s \in Senders : sender[s].pc \notin {"idle", "yield"}

\* C31: from the step in which send() starts to build its requests the batch
\* is closed for good; no later step adds or removes a partition or changes
\* the pending entries of a partition, and a registration that runs later
\* raises and adds nothing.
C31_Step ==
    /\ (Building' /\ ~Building) => ~in_process'
    /\ Building =>
          /\ ~in_process /\ ~in_process'
          /\ BatchPartitions(batch') = BatchPartitions(batch)
          /\ \A i \in 1..Len(batch) : PendingOf(batch', i) = PendingOf(batch, i)
          /\ \A c \in Callers :
                (call[c].pc = "idle" /\ call'[c].pc # "idle") =>
                    /\ call'[c].pc = "raised"
                    /\ call'[c].error = "AssertionError"

C31_ClosedBatchFrozen == [][C31_Step]_vars

\* one caller registered, send() has its request on the wire, and a caller
\* that came later with another partition was rejected: the partition is not
\* in the batch
C31_Witness ==
    \E c, d \in Callers, s \in Senders :
        /\ call[c].pc = "waiting"
        /\ sender[s].pc = "await"
        /\ call[d].pc = "raised"
        /\ call[d].partition # call[c].partition
        /\ Lookup(batch, call[d].partition) = 0
        /\ Len(batch) = 1

\* the callers whose registration in partition p is pending
PendingCallers(p) == {c \in Callers : Registered(c) /\ call[c].partition = p}

\* C32: the body of the request of a partition holds one item for every
\* pending clustering key of the partition and no other item; the item of a
\* key carries the new value registered for it, the old version of a cas and
\* no version for a set.
C32_BodyIsThePendingEntries ==
    \A s \in Senders : sender[s].pc = "await" =>
        LET body == sender[s].req.body
            pending == PendingCallers(sender[s].req.partition)
        IN  /\ Len(body) = Cardinality(pending)
            /\ \A c \in pending :
                  \E i \in 1..Len(body) :
                      /\ body[i].key = call[c].clustering
                      /\ body[i].value = call[c].new_value
                      /\ body[i].version = call[c].old_version
                      /\ \A j \in 1..Len(body) : body[j].key = body[i].key => j = i
            /\ \A i \in 1..Len(body) :
                  \E c \in pending : body[i].key = call[c].clustering

\* a set and a cas of two keys of one partition are on the wire together
C32_Witness ==
    \E s \in Senders : \E c, d \in Callers :
        /\ sender[s].pc = "await"
        /\ c # d
        /\ {c, d} \subseteq PendingCallers(sender[s].req.partition)
        /\ call[c].old_version = NoVersion
        /\ call[d].old_version # NoVersion
        /\ Len(sender[s].req.body) = 2

(* ------------------------------------------ two clients racing on one key *)
\* the old version a cas is compared with: the argument, or the cached one
CasOld(op, entry) ==
    IF op.old_version = NoVersion THEN entry.version ELSE op.old_version

\* client d has a request of the same kind as client c's in flight on c's key
Racing(c, d, name) ==
    /\ c # d /\ EKey(c) = EKey(d)
    /\ ent[c].pc = "await" /\ ent[c].op.name = name
    /\ ent[d].pc \in {"await", "resp"} /\ ent[d].op.name = name

\* the cas calls of client c that have returned: old version and outcome
CasReturned(c) ==
    {[old |-> CasOld(ent[c].log[i].op, ent[c].log[i].before),
      error |-> ent[c].log[i].error] :
        i \in {j \in 1..Len(ent[c].log) : ent[c].log[j].op.name = "cas"}}

\* C33: of two direct set calls racing on one key the server rejects neither:
\* each one it executes is answered 200, returns without error, and stores its
\* value under the next version, over what the other wrote; of two racing cas
\* calls with the same old version the one executed after the other succeeded
\* is answered 409 and raises CasError, and never both succeed.
C33_Step ==
    /\ \A c, d \in Clients :
          (/\ Racing(c, d, "set")
           /\ ent'[c].pc = "resp" /\ ent'[c].response.status # 408) =>
              /\ ent'[c].response.status = 200
              /\ store'[EKey(c)] = [value |-> ent[c].op.new_value,
                                    version |-> store[EKey(c)].version + 1]
    /\ \A c, d \in Clients :
          (/\ Racing(c, d, "cas")
           /\ CasOld(ent[c].op, ent[c].entry) = CasOld(ent[d].op, ent[d].entry)
           /\ ent[d].pc = "resp" /\ ent[d].response.status = 200
           /\ ent'[c].pc = "resp" /\ ent'[c].response.status # 408) =>
              /\ ent'[c].response.status = 409
              /\ store' = store
    /\ \A c \in Clients :
          (ent[c].pc = "resp" /\ ent'[c].pc = "ready" /\ IsPut(ent[c].op)) =>
              LET done == ent'[c].log[Len(ent'[c].log)]
              IN  /\ ent[c].response.status = 200 => done.error = ""
                  /\ ent[c].response.status = 409 =>
                        /\ done.op.name = "cas"
                        /\ done.error = "CasError"
    /\ \A c, d \in Clients :
          (c # d /\ EKey(c) = EKey(d)) =>
              \A x \in CasReturned(c)', y \in CasReturned(d)' :
                  x.old = y.old => ~(x.error = "" /\ y.error = "")

C33_RacingWrites == [][C33_Step]_vars

\* two cas calls with the same old version were in flight together; the first
\* was executed and succeeded, the second has just been answered 409
C33_Witness ==
    \E c, d \in Clients :
        /\ c # d /\ EKey(c) = EKey(d)
        /\ ent[c].pc = "resp" /\ ent[d].pc = "resp"
        /\ ent[c].op.name = "cas" /\ ent[d].op.name = "cas"
        /\ CasOld(ent[c].op, ent[c].entry) = CasOld(ent[d].op, ent[d].entry)
        /\ ent[d].response.status = 200
        /\ ent[c].response.status = 409
        /\ store[EKey(c)] = [value |-> d, version |-> 1]

\* two set calls were in flight together and both returned without error; the
\* store holds the value of the one executed later
C33_SetRace ==
    \E c, d \in Clients :
        /\ c # d /\ EKey(c) = EKey(d)
        /\ Len(ent[c].log) = 1 /\ Len(ent[d].log) = 1
        /\ ent[c].log[1].op.name = "set" /\ ent[d].log[1].op.name = "set"
        /\ ent[c].log[1].error = "" /\ ent[d].log[1].error = ""
        /\ ent[c].log[1].op.new_value = c /\ ent[d].log[1].op.new_value = d
        /\ ent[d].log[1].response.version = 1
        /\ ent[c].log[1].response.version = 2
        /\ store[EKey(c)] = [value |-> c, version |-> 2]

(* ------------------------------------------- a transport call of send() fails *)
\* the partitions send number s had not reached when it raised
NotReached(s) ==
    {sender[s].requests[i] : i \in (sender[s].idx + 1)..Len(sender[s].requests)}

\* C34: a transport call that fails makes send() raise that error in the same
\* step, without a wire call and without resolving the completion signal; the
\* send() that raised does nothing afterwards, so a later wire call or the
\* resolution of the signal is the work of another call of send(), and while
\* there is none the partitions registered after the failed one have no wire
\* call and the signal is pending.
C34_Step ==
    /\ \A s \in Senders :
          (sender[s].pc = "resp" /\ raise_if_error(sender[s].status) # "") =>
              (sender'[s] # sender[s] =>
                  /\ sender'[s].pc = "raised"
                  /\ sender'[s].error = raise_if_error(sender[s].status)
                  /\ sender'[s].idx = sender[s].idx
                  /\ puts' = puts
                  /\ future' = future)
    /\ \A s \in Senders :
          TransportError(s) =>
              /\ sender'[s] = sender[s]
              /\ (puts' # puts \/ future' # future) =>
                    \E q \in Senders \ {s} : sender'[q] # sender[q]
              /\ OnlyFirstSend =>
                    /\ future = "pending"
                    /\ \A p \in NotReached(s) : puts[p] = 0

EntryOf(b, c) ==
    LET pb == b[Lookup(b, call[c].partition)]
    IN  pb.batch[Lookup(pb.batch, call[c].clustering)]

\* caller d was rejected for the key that caller c had registered before
Rejected(c, d) ==
    /\ c < d
    /\ Registered(c)
    /\ call[d].pc = "raised"
    /\ Key(d) = Key(c)

\* what holds of the first registration c and of the rejected caller d
KeptFirst(c, d) ==
    /\ EntryOf(batch, c).new_value = call[c].new_value
    /\ EntryOf(batch, c).old_version = call[c].old_version
    /\ \A s \in Senders :
          (sender[s].pc = "await" /\ sender[s].req.partition = call[c].partition) =>
              \E i \in 1..Len(sender[s].req.body) :
                  sender[s].req.body[i] =
                      [key |-> call[c].clustering, value |-> call[c].new_value,
                       version |-> call[c].old_version]
    /\ call[c].pc = "returned" =>
          /\ call[c].result >= 1
          /\ call[c].version = call[c].result
          /\ call[c].value = call[c].new_value
          /\ OnlyFirstSend =>
                /\ call[c].result = EntryOf(batch, c).new_version
                /\ call[c].result = store[Key(c)].version
    /\ call[d].version = IdleCall.version
    /\ call[d].value = IdleCall.value

\* C35: the step in which an open batch rejects a registration as a duplicate
\* changes nothing in the batch; from then on the entry of the key is the one
\* of the first registration, with its new value and its old version, the
\* request of its partition carries them, the first caller returns the version
\* the server gave its entry, and the rejected caller's cached version and
\* value stay what they were.
C35_Step ==
    /\ \A d \in Callers :
          (/\ call[d].pc = "idle" /\ call'[d].pc = "raised"
           /\ in_process) =>
              /\ \E c \in Callers : Rejected(c, d)'
              /\ batch' = batch
              /\ call'[d].error = "AssertionError"
    /\ \A c, d \in Callers : Rejected(c, d)' => KeptFirst(c, d)'

C35_DuplicateLeavesBatch == [][C35_Step]_vars

C35_Witness ==
    \E c, d \in Callers :
        /\ Rejected(c, d)
        /\ OnlyFirstSend /\ sender[1].pc = "done"
        /\ puts[call[c].partition] = 1
        /\ call[c].pc = "returned"
        /\ call[c].result = 1
        /\ call[c].value = c
        /\ store[Key(c)] = [value |-> c, version |-> 1]
        /\ call[d].version = 0 /\ call[d].value = None
        /\ Len(batch) = 1 /\ Len(batch[1].batch) = 1

(* ------------------------------------ registrations with different n, r, w *)
\* the n, r, w the callers pass: the default of Session.entry and two others
ReplicationChoices == {<<3, 2, 2>>, <<1, 1, 1>>, <<5, 3, 3>>}

\* Entry.set with the batch, by an Entry made with n, r, w of its own; probe
\* keeps what each caller passed, in the order of the calls
RegisterWith(c, p, k, nrw) ==
    /\ Register(c, p, k, "set", NoVersion, nrw[1], nrw[2], nrw[3])
    /\ probe' = Append(probe, nrw)
    /\ UNCHANGED <<ent, txn, scope, loop>>

DoRegisterWith ==
    \E c \in Callers, p \in Partitions, k \in Clusterings,
       nrw \in ReplicationChoices : RegisterWith(c, p, k, nrw)

ReplicationNext ==
    \/ DoRegisterWith
    \/ DoResume
    \/ DoSendInvoke
    \/ DoSendAfterYield
    \/ DoServerPut
    \/ DoSendResume

ReplicationSpec == Init /\ [][ReplicationNext]_vars

\* the first caller registered in partition p
FirstIn(p) ==
    CHOOSE c \in PendingCallers(p) : \A d \in PendingCallers(p) : c <= d

\* C36: the request of a partition is sent with the n, r, w that the first
\* registration of the partition passed, whatever the later ones passed.
C36_FirstReplicationWins ==
    \A s \in Senders : sender[s].pc = "await" =>
        LET req == sender[s].req
        IN  <<req.n, req.r, req.w>> = probe[FirstIn(req.partition)]

C36_Witness ==
    \E s \in Senders : \E c, d \in Callers :
        /\ sender[s].pc = "await"
        /\ c < d
        /\ {c, d} \subseteq PendingCallers(sender[s].req.partition)
        /\ probe[c] = <<1, 1, 1>>
        /\ probe[d] = <<5, 3, 3>>
        /\ sender[s].req.n = 1 /\ sender[s].req.r = 1 /\ sender[s].req.w = 1

(* ------------------------------------- a batch used inside a transaction *)
\* what a block writes directly: a value no caller of the batch uses
DirectValue(s) == NumCallers + s

\* in the body: tx.entry(key).set(value, batch) as a task of its own, up to
\* `await self._future`; probe keeps the transaction of each caller's Entry
ScopeBatchSet(s, c, key) ==
    /\ scope[s].pc = "body"
    /\ NoneLeaving
    /\ LET entry == Transaction_entry(scope[s].tx, key[1], key[2], 3, 2, 2)
       IN  /\ Register(c, entry.partition, entry.clustering, "set", NoVersion,
                       entry.n, entry.r, entry.w)
           /\ probe' = Append(probe, entry.transaction)
    /\ UNCHANGED <<ent, txn, scope, loop>>

\* the bodies make MaxBody calls at most, batched ones included
MoreCalls == BodyOps(scope, NumScopes) + Len(probe) < MaxBody

DoScopeBatchSet ==
    \E s \in Scopes, c \in Callers, key \in TxKeys :
        MoreCalls /\ ScopeBatchSet(s, c, key)
DoScopeDirectSet ==
    \E s \in Scopes : \E key \in TxKeys :
        MoreCalls /\ ScopeSet(s, key, DirectValue(s))

TxBatchNext ==
    \/ DoScopeEnter
    \/ DoScopeBatchSet
    \/ DoScopeDirectSet
    \/ DoScopeFinish
    \/ DoScopeLeave
    \/ DoScopeExit
    \/ DoResume
    \/ DoSendInvoke
    \/ DoSendAfterYield
    \/ DoServerPut
    \/ DoSendResume

TxBatchSpec == TxInit /\ [][TxBatchNext]_vars

\* the writes the server keeps with transaction number i
BufferedWrites(tx, i) == {tx[i].writes[j] : j \in 1..Len(tx[i].writes)}

\* C37: the request of a partition has a url, a body and n, r, w, and no
\* transaction, also when the Entries registered in it are bound to one; the
\* server stores its items at once and keeps none of them with a transaction,
\* and the rollback of the transaction changes nothing in the store.
C37_Step ==
    /\ \A s \in Senders :
          DOMAIN sender'[s].req = {"partition", "n", "r", "w", "body"}
    /\ \A s \in Senders :
          (/\ sender[s].pc = "await" /\ sender'[s].pc = "resp"
           /\ sender'[s].status = 200) =>
              /\ txn' = txn
              /\ \A c \in PendingCallers(sender[s].req.partition) :
                    store'[Key(c)] = [value |-> call[c].new_value,
                                      version |-> store[Key(c)].version + 1]
    /\ \A i \in 1..Len(txn) :
          (txn[i].state = "open" /\ txn'[i].state = "rolled-back") =>
              store' = store
    /\ \A c \in 1..Len(probe') : \A i \in 1..Len(txn') :
          \A write \in BufferedWrites(txn', i) : write.value # call'[c].new_value

C37_BatchIgnoresTransaction == [][C37_Step]_vars

\* a block registered a set in the batch and wrote another key directly; the
\* batch was sent and its caller returned, then the block was rolled back:
\* the batched write is in the store, the direct one is not
C37_Witness ==
    \E s \in Scopes, c \in Callers :
        /\ scope[s].pc = "done" /\ scope[s].exit_call = "rollback"
        /\ txn[scope[s].tx].state = "rolled-back"
        /\ c \in 1..Len(probe)
        /\ probe[c] = scope[s].tx
        /\ call[c].pc = "returned" /\ call[c].result = 1
        /\ store[Key(c)] = [value |-> c, version |-> 1]
        /\ Len(scope[s].writes) = 1
        /\ scope[s].writes[1].key # Key(c)
        /\ store[scope[s].writes[1].key] = Fresh

(* ------------------------------------ the entries of an index query, of a range *)
IndexedPartition == "p1"
ClusteringOrder == <<"a", "b">>

\* what was stored before the run: nothing, or a value written once or twice
Stored == {Fresh} \cup {[value |-> NumClients + 1, version |-> v] : v \in 1..2}

\* the written keys of a partition among `keys`, in ascending order
WrittenKeys(st, partition, keys) ==
    SelectSeq(ClusteringOrder,
              LAMBDA k : k \in keys /\ st[<<partition, k>>].version > 0)

\* the body of an index query: key and value of the stored entries that match
ServerIndexQuery(st, partition, matched) ==
    LET keys == WrittenKeys(st, partition, matched)
    IN  [i \in 1..Len(keys) |->
            [key |-> keys[i], value |-> st[<<partition, keys[i]>>].value]]

\* the body of the range of a whole partition: key, version and value
ServerPartitionRange(st, partition) ==
    LET keys == WrittenKeys(st, partition, Clusterings)
    IN  [i \in 1..Len(keys) |->
            [key |-> keys[i], version |-> st[<<partition, keys[i]>>].version,
             value |-> st[<<partition, keys[i]>>].value]]

\* mutant: the entries of a query are given version 1
PartitionIndex_query_one(partition, data) ==
    [i \in 1..Len(data) |->
        Entry_init(partition, data[i].key, 1, data[i].value, 3, 2, 2, NoTx)]

\* PartitionIndex.query: an Entry for every element of the response
PartitionIndex_query(partition, data) ==
    [i \in 1..Len(data) |->
        Entry_init(partition, data[i].key, 0, data[i].value, 3, 2, 2, NoTx)]

\* Session.range, the Entries made of the body
RangeEntries(partition, body, n, r, w) ==
    [i \in 1..Len(body) |->
        Entry_init(partition, body[i].key, body[i].version, body[i].value,
                   n, r, w, NoTx)]

NoEntry == Entry_init("", "", 0, None, 0, 0, 0, NoTx)

IndexInit ==
    /\ \E st \in [Keys -> Stored] :
          /\ \A k \in Keys : k[1] # IndexedPartition => st[k] = Fresh
          /\ store = st
    /\ in_process = TRUE
    /\ future = "pending"
    /\ batch = <<>>
    /\ call = [c \in Callers |-> IdleCall]
    /\ sender = [s \in Senders |-> IdleSender]
    /\ puts = [p \in Partitions |-> 0]
    /\ ent = [c \in Clients |-> Client(NoEntry)]
    /\ txn = <<>>
    /\ scope = <<>>
    /\ probe = [c \in Clients |-> ""]
    /\ loop = NoLoop

\* client c calls PartitionIndex.query and keeps element number i of the list
IndexQueryCall(c, matched, i) ==
    /\ probe[c] = ""
    /\ LET entries == PartitionIndex_query(IndexedPartition,
                          ServerIndexQuery(store, IndexedPartition, matched))
       IN  /\ i \in 1..Len(entries)
           /\ ent' = [ent EXCEPT ![c] = Client(entries[i])]
    /\ probe' = [probe EXCEPT ![c] = "query"]
    /\ UNCHANGED <<store, bvars, txn, scope>>

\* client c calls Session.range on the partition and keeps element number i
PartitionRangeCall(c, i) ==
    /\ probe[c] = ""
    /\ LET entries == RangeEntries(IndexedPartition,
                          ServerPartitionRange(store, IndexedPartition), 3, 2, 2)
       IN  /\ i \in 1..Len(entries)
           /\ ent' = [ent EXCEPT ![c] = Client(entries[i])]
    /\ probe' = [probe EXCEPT ![c] = "range"]
    /\ UNCHANGED <<store, bvars, txn, scope>>

\* entry.cas(value) on the Entry the client keeps: old_version is left out
CasDefault(c) ==
    [name |-> "cas", new_value |-> c, old_version |-> NoVersion,
     wait_version |-> NoVersion]

DoIndexQueryCall ==
    \E c \in Clients : \E matched \in SUBSET Clusterings :
        \E i \in 1..Cardinality(matched) : IndexQueryCall(c, matched, i)
DoPartitionRangeCall ==
    \E c \in Clients : \E i \in 1..Cardinality(Clusterings) : PartitionRangeCall(c, i)
DoCasDefault ==
    \E c \in Clients : probe[c] # "" /\ EntryCall(c, CasDefault(c))

IndexNext ==
    \/ DoIndexQueryCall
    \/ DoPartitionRangeCall
    \/ DoCasDefault
    \/ DoServerEntry
    \/ DoEntryReturn

IndexSpec == IndexInit /\ [][IndexNext]_vars

\* C38: an Entry of PartitionIndex.query has version 0, n, r, w 3, 2, 2 and
\* no transaction, whatever version its key is stored under, and an Entry of
\* Session.range has the stored version; so the first cas without old_version
\* on an Entry of a query is answered 409 and raises CasError, while on an
\* Entry of a range it is answered 200 if the key was not written since.
C38_Step ==
    \A c \in Clients :
        /\ (probe[c] = "" /\ probe'[c] = "query") =>
              /\ store[EKey(c)'].version >= 1
              /\ ent'[c].entry.version = 0
              /\ ent'[c].entry.value = store[EKey(c)'].value
              /\ <<ent'[c].entry.n, ent'[c].entry.r, ent'[c].entry.w>> = <<3, 2, 2>>
              /\ ent'[c].entry.transaction = NoTx
        /\ (probe[c] = "" /\ probe'[c] = "range") =>
              /\ ent'[c].entry.version = store[EKey(c)'].version
              /\ ent'[c].entry.value = store[EKey(c)'].value
        /\ (/\ ent[c].pc = "await" /\ ent'[c].pc = "resp"
            /\ ent[c].log = <<>>
            /\ ent'[c].response.status # 408) =>
              /\ probe[c] = "query" =>
                    /\ ent[c].req.oldVersion = 0
                    /\ ent'[c].response.status = 409
                    /\ store' = store
              /\ (probe[c] = "range"
                    /\ store[EKey(c)].version = ent[c].entry.version) =>
                    /\ ent'[c].response.status = 200
                    /\ store'[EKey(c)].version = ent[c].entry.version + 1
        /\ (ent[c].pc = "resp" /\ ent'[c].pc = "ready" /\ ent[c].log = <<>>) =>
              (ent[c].response.status = 409 <=> ent'[c].log[1].error = "CasError")

C38_QueryEntriesAreUnversioned == [][C38_Step]_vars

\* two clients hold the Entry of one key stored under version 2, one from a
\* query and one from a range: the cas of the first raised CasError, the cas
\* of the second wrote version 3
C38_Witness ==
    \E c, d \in Clients :
        /\ probe[c] = "query" /\ probe[d] = "range"
        /\ EKey(c) = EKey(d)
        /\ Len(ent[c].log) = 1 /\ Len(ent[d].log) = 1
        /\ ent[c].log[1].before.version = 0
        /\ ent[d].log[1].before.version = 2
        /\ ent[c].log[1].error = "CasError"
        /\ ent[d].log[1].error = ""
        /\ store[EKey(c)] = [value |-> d, version |-> 3]

(* ------------------------------------------ the cached version and the store *)
\* no cached version is ahead of the version its key is stored under
NoneAhead ==
    /\ \A c \in Callers :
          call[c].pc # "idle" => call[c].version <= store[Key(c)].version
    /\ ent # <<>> =>
          \A c \in Clients : ent[c].entry.version <= store[EKey(c)].version

\* C39: outside transactions the version an Entry caches is never greater than
\* the version its key is stored under, and it changes only to the version of
\* a response: the one of the body of a direct get, listen, set or cas that
\* was answered 200, or the one the batch took from the response for the key.
C39_Step ==
    /\ NoneAhead /\ NoneAhead'
    /\ \A c \in Callers :
          call'[c].version # call[c].version =>
              /\ future = "done"
              /\ call'[c].version = EntryOf(batch, c).new_version
    /\ \A c \in Callers :
          (Registered(c) /\ EntryOf(batch', c).new_version # EntryOf(batch, c).new_version) =>
              \E s \in Senders : \E i \in 1..Len(sender[s].body) :
                  /\ sender[s].pc = "resp" /\ sender[s].status = 200
                  /\ sender[s].req.partition = call[c].partition
                  /\ sender[s].body[i].key = call[c].clustering
                  /\ sender[s].body[i].version = EntryOf(batch', c).new_version
    /\ ent # <<>> =>
          \A c \in Clients :
              ent'[c].entry.version # ent[c].entry.version =>
                  /\ ent[c].pc = "resp"
                  /\ ent[c].response.status = 200
                  /\ ent'[c].entry.version = ent[c].response.version

C39_CacheNeverAhead == [][C39_Step]_vars

\* a client whose cached version is behind the store after another client's
\* write, and has moved from 0 to the version of a response before
C39_Witness ==
    /\ ent # <<>>
    /\ \E c, d \in Clients :
          /\ c # d /\ EKey(c) = EKey(d)
          /\ Len(ent[c].log) = 1 /\ Succeeded(ent[c].log[1])
          /\ IsPut(ent[c].log[1].op)
          /\ ent[c].entry.version = 1
          /\ ent[d].entry.version = 2
          /\ store[EKey(c)].version = 2

\* a caller of the batch that has returned with the version of its key
C39_BatchCase ==
    \E c \in Callers :
        /\ call[c].pc = "returned"
        /\ call[c].version = 1
        /\ store[Key(c)].version = 2

====
